---- MODULE Spec2Model ----
(***************************************************************************)
(* Tamil calendar API: the Muhurtam year scan (muhurtam.py), the           *)
(* Panchangam transition finders and the Panchangam snapshot               *)
(* (panchangam.py), over an ephemeris provider modelled as a               *)
(* parametrised, deterministic function of time.                           *)
(*                                                                         *)
(* Units.  Angles are integers in units of 1/300 degree, so that 12 deg,   *)
(* 360/27 deg, 0.1 deg and 0.01 deg are all whole numbers.  Instants       *)
(* (Julian days) are integers in ticks of 1/128 minute counted from        *)
(* 00:00 UTC of Jan 1 of FirstYear, so that every bisection midpoint of a  *)
(* one-day interval is a whole number of ticks.                            *)
(***************************************************************************)
EXTENDS Integers, Sequences, FiniteSets, TLC

VARIABLES
    eph,              \* the ephemeris provider (swisseph): its parameters
    muhurtam_type,    \* calculate_muhurtam_dates: argument
    year,             \* calculate_muhurtam_dates: argument
    tz,               \* calculate_muhurtam_dates: argument, as a UTC offset in minutes
    current_date,     \* calculate_muhurtam_dates: local, <<y, m, d>>
    auspicious_dates, \* calculate_muhurtam_dates: local, the list being built
    pc,               \* calculate_muhurtam_dates: "idle", "scan", "returned", "raised"
    rise_calls,       \* number of swe.rise_trans calls made by the scan
    finder,           \* PanchangamCalculator: the transition finder running
    karana_i,         \* _calculate_karana: the loop index i of the call, else 0
    jd,               \* _calculate_tithi / _nakshatra / _yoga: the anchor instant
    target,           \* the finder's target angle
    jd_start,         \* the finder's local interval bounds
    jd_end,
    iterations,       \* passes of the finder's while loop so far
    found,            \* the finder's return value: <<instant>>, <<>> for None
    end_time,         \* the caller's "..._end" field: <<time>>, <<>> for None
    fpc,              \* the finder's control position: "idle", "loop", "returned"
    rerun,            \* a second run of the finder on its own result: the result and
                      \* the interval the run was given; <<>> in a first run
    req_date,         \* calculate_panchangam: argument date, <<y, m, d>>
    panchangam,       \* calculate_panchangam: the returned dict, <<>> before it returns
    ppc,              \* calculate_panchangam: "idle", "returned", "raised"
    start_dt,         \* get_panchangam_range: the parsed start date
    end_dt,           \* get_panchangam_range: the parsed end date
    location,         \* get_panchangam_range: argument, a location key
    current_dt,       \* get_panchangam_range: local, the date of the next pass
    panchangam_list,  \* get_panchangam_range: local, the list being built
    range_response,   \* get_panchangam_range: the response, <<>> before there is one
    rpc,              \* get_panchangam_range: "idle", "loop", "returned", "rejected", "failed"
    scan_results,     \* what calculate_muhurtam_dates returns under the provider, by
                      \* <<muhurtam_type, year, location>>
    cache,            \* the files of CACHE_DIR: <<text>> by key, <<>> for no file
    cache_log,        \* by key, how often the dates were computed and the file written
    request,          \* the last request of /muhurtam or /muhurtam/all, <<>> before
    response,         \* its response
    calc_sun,         \* PanchangamCalculator: the Sun's longitude as swe.calc_ut returned it
    calc_moon,        \* PanchangamCalculator: the Moon's longitude as swe.calc_ut returned it
    indices           \* PanchangamCalculator: the table indices computed from them, <<>> before

scanVars == <<muhurtam_type, year, current_date, auspicious_dates, pc, rise_calls>>
finderVars == <<finder, karana_i, jd, target, jd_start, jd_end, iterations, found, end_time, fpc,
                rerun>>
snapVars == <<req_date, panchangam, ppc>>
rangeVars == <<start_dt, end_dt, location, current_dt, panchangam_list, range_response, rpc>>
cacheVars == <<scan_results, cache, cache_log, request, response>>
apiVars == <<rangeVars, cacheVars>>
classVars == <<calc_sun, calc_moon, indices>>
vars == <<eph, tz, scanVars, finderVars, snapVars, apiVars, classVars>>

-----------------------------------------------------------------------------
(* Bounds of the model *)

FirstYear == 2024
NumYears == 1

Years == FirstYear .. (FirstYear + NumYears - 1)

-----------------------------------------------------------------------------
(* Units *)

UnitsPerDegree == 3 * 100
Circle == 360 * UnitsPerDegree
TicksPerMinute == 2 * 64
MinutesPerDay == 24 * 60
TicksPerDay == MinutesPerDay * TicksPerMinute

Abs(x) == IF x < 0 THEN -x ELSE x

\* a 0-based Python list lookup on a 1-based sequence
At(table, i) == table[i + 1]

\* Python's `x in list`
InList(x, list) == \E i \in DOMAIN list : list[i] = x

-----------------------------------------------------------------------------
(* config.py name tables (English names) *)

NAKSHATRAS == <<
    "Ashwini", "Bharani", "Krittika", "Rohini", "Mrigashira", "Ardra",
    "Punarvasu", "Pushya", "Ashlesha", "Magha", "Purva Phalguni",
    "Uttara Phalguni", "Hasta", "Chitra", "Swati", "Vishakha", "Anuradha",
    "Jyeshtha", "Mula", "Purva Ashadha", "Uttara Ashadha", "Shravana",
    "Dhanishtha", "Shatabhisha", "Purva Bhadrapada", "Uttara Bhadrapada",
    "Revati" >>

TITHIS == <<
    "Pratipada", "Dwitiya", "Tritiya", "Chaturthi", "Panchami", "Shashthi",
    "Saptami", "Ashtami", "Navami", "Dashami", "Ekadashi", "Dwadashi",
    "Trayodashi", "Chaturdashi", "Purnima",
    "Pratipada", "Dwitiya", "Tritiya", "Chaturthi", "Panchami", "Shashthi",
    "Saptami", "Ashtami", "Navami", "Dashami", "Ekadashi", "Dwadashi",
    "Trayodashi", "Chaturdashi", "Amavasya" >>

MASAS == <<
    "Chithirai", "Vaikasi", "Aani", "Aadi", "Aavani", "Purattasi",
    "Aippasi", "Karthigai", "Margazhi", "Thai", "Maasi", "Panguni" >>

-----------------------------------------------------------------------------
(* Python datetime, as calculate_muhurtam_dates uses it *)

IsLeap(y) == (y % 4 = 0) /\ ((y % 100 # 0) \/ (y % 400 = 0))

DaysInMonth(y, m) ==
    IF m = 2 THEN (IF IsLeap(y) THEN 29 ELSE 28)
    ELSE IF m \in {4, 6, 9, 11} THEN 30 ELSE 31

DaysBeforeYear(y) ==
    (y - 1) * 365 + ((y - 1) \div 4) - ((y - 1) \div 100) + ((y - 1) \div 400)

DaysBeforeMonth(y, m) ==
    <<0, 31, 59, 90, 120, 151, 181, 212, 243, 273, 304, 334>>[m]
        + (IF m > 2 /\ IsLeap(y) THEN 1 ELSE 0)

\* date.toordinal()
Ordinal(date) == DaysBeforeYear(date[1]) + DaysBeforeMonth(date[1], date[2]) + date[3]

\* date.weekday(): Monday = 0 ... Sunday = 6
Weekday(date) == (Ordinal(date) + 6) % 7

\* a day increment that forgets to carry into the next year
NextDay_NoYearCarry(date) ==
    IF date[3] < DaysInMonth(date[1], date[2]) THEN <<date[1], date[2], date[3] + 1>>
    ELSE IF date[2] < 12 THEN <<date[1], date[2] + 1, 1>>
    ELSE <<date[1], 1, 1>>

\* a day increment that stays on the last day of a month
NextDay_StaysAtMonthEnd(date) ==
    IF date[3] < DaysInMonth(date[1], date[2]) THEN <<date[1], date[2], date[3] + 1>>
    ELSE date

\* current_date += timedelta(days=1)
NextDay(date) ==
    IF date[3] < DaysInMonth(date[1], date[2]) THEN <<date[1], date[2], date[3] + 1>>
    ELSE IF date[2] < 12 THEN <<date[1], date[2] + 1, 1>>
    ELSE <<date[1] + 1, 1, 1>>

\* datetime comparison current_date <= end_date
DateLeq(a, b) ==
    \/ a[1] < b[1]
    \/ a[1] = b[1] /\ a[2] < b[2]
    \/ a[1] = b[1] /\ a[2] = b[2] /\ a[3] <= b[3]

DateLess(a, b) == DateLeq(a, b) /\ a # b

\* strftime('%A')
WeekdayNames == <<"Monday", "Tuesday", "Wednesday", "Thursday", "Friday",
                  "Saturday", "Sunday">>

\* whole days from 00:00 UTC of Jan 1 of FirstYear to 00:00 of the date
DayNumber(date) == Ordinal(date) - Ordinal(<<FirstYear, 1, 1>>)

\* _get_julian_day: the instant of local midnight of the date, in ticks
JulianDay(date, tzoff) == DayNumber(date) * TicksPerDay - tzoff * TicksPerMinute

\* _jd -> local "%H:%M": swe.revjul, truncation to the minute, astimezone
TimeStr(t, tzoff) ==
    LET minute == ((t \div TicksPerMinute) + tzoff) % MinutesPerDay
    IN  <<minute \div 60, minute % 60>>

-----------------------------------------------------------------------------
(* The ephemeris provider (swisseph), sidereal longitudes and sunrise *)

SUN == "SUN"
MOON == "MOON"

\* a longitude that starts at lon0 and advances rate units a day
LonAt(lon0, rate, t) ==
    (lon0 + (t \div TicksPerDay) * rate
          + ((t % TicksPerDay) * rate) \div TicksPerDay) % Circle

\* swe.calc_ut(t, body, FLG_SIDEREAL)[0][0]; the Moon is placed by its
\* elongation from the Sun, which advances eph.elong_rate units a day
CalcUt(t, body) ==
    IF body = SUN THEN LonAt(eph.sun0, eph.sun_rate, t)
    ELSE (LonAt(eph.sun0, eph.sun_rate, t) + LonAt(eph.elong0, eph.elong_rate, t)) % Circle

\* the time from one sunrise to the next: a day, plus the amount by which
\* the sunrise gets later (or, negative, earlier) from day to day
RisePeriod == TicksPerDay + eph.rise_step

\* the k-th sunrise; sunrise 0 is eph.rise ticks after 00:00 UTC of Jan 1 of
\* FirstYear
Sunrise(k) == eph.rise + k * RisePeriod

\* swe.rise_trans(jd, SUN, CALC_RISE, geopos)[1][0]: the first sunrise at or
\* after jd
RiseTrans(t) ==
    Sunrise((t - eph.rise + RisePeriod - 1) \div RisePeriod)

\* swe.rise_trans raising (no sunrise for the date)
RiseFails(t) ==
    LET k == RiseTrans(t) \div TicksPerDay
    IN  /\ eph.fail.from <= k
        /\ k <= eph.fail.to
        /\ (k - eph.fail.from) % eph.fail.every = 0

-----------------------------------------------------------------------------
(* MuhurtamCalculator (muhurtam.py) *)

MuhurtamTypes == {"marriage", "grihapravesam", "vehicle", "naamkaranam",
                  "annaprasanam", "upanayanam"}

auspicious_tithis == [t \in MuhurtamTypes |->
    CASE t = "marriage"      -> <<2, 3, 5, 7, 10, 11, 12, 13>>
      [] t = "grihapravesam" -> <<2, 3, 5, 7, 10, 11, 12, 13>>
      [] t = "vehicle"       -> <<2, 3, 5, 6, 7, 10, 11, 12, 13>>
      [] t = "naamkaranam"   -> <<5, 6, 10, 11, 12>>
      [] t = "annaprasanam"  -> <<5, 6, 10, 11, 12>>
      [] t = "upanayanam"    -> <<2, 3, 5, 7, 10, 11, 12, 13>>]

auspicious_nakshatras == [t \in MuhurtamTypes |->
    CASE t = "marriage"      -> <<0, 2, 3, 4, 6, 7, 9, 10, 12, 13, 14, 16, 19, 22, 25, 26>>
      [] t = "grihapravesam" -> <<0, 2, 3, 4, 6, 9, 10, 12, 13, 16, 19, 22, 25, 26>>
      [] t = "vehicle"       -> <<0, 2, 3, 4, 6, 9, 10, 12, 13, 16, 19, 22, 25, 26>>
      [] t = "naamkaranam"   -> <<0, 2, 3, 4, 6, 9, 10, 12, 13, 16, 22, 25, 26>>
      [] t = "annaprasanam"  -> <<0, 2, 3, 4, 6, 9, 10, 12, 13, 16, 22, 25, 26>>
      [] t = "upanayanam"    -> <<0, 2, 3, 4, 6, 9, 10, 12, 13, 16, 22, 25, 26>>]

marriage_avoid_weekdays == <<1, 5>>

\* the month names the marriage rule tests masa_name against
marriage_avoid_masas == <<"Ashadha", "Bhadrapada">>

HalfHour == 30 * TicksPerMinute

\* the 48-step loop of MuhurtamCalculator._calculate_tithi: the first step
\* k..48 (half hours after at) at which the end condition holds, 0 if none
RECURSIVE TithiEndStep(_, _, _)
TithiEndStep(at, next_tithi_angle, k) ==
    IF k > 48 THEN 0
    ELSE LET jd_temp    == at + k * HalfHour
             angle_temp == (CalcUt(jd_temp, MOON) - CalcUt(jd_temp, SUN)) % Circle
         IN  IF \/ angle_temp >= next_tithi_angle
                \/ (angle_temp < 12 * UnitsPerDegree
                    /\ next_tithi_angle >= 348 * UnitsPerDegree)
             THEN k
             ELSE TithiEndStep(at, next_tithi_angle, k + 1)

\* MuhurtamCalculator._calculate_tithi
M_calculate_tithi(at, tzoff) ==
    LET moon_pos    == CalcUt(at, MOON)
        sun_pos     == CalcUt(at, SUN)
        tithi_angle == (moon_pos - sun_pos) % Circle
        tithi_num   == (tithi_angle \div (12 * UnitsPerDegree)) + 1
        next_tithi_angle == tithi_num * 12 * UnitsPerDegree
        k           == TithiEndStep(at, next_tithi_angle, 1)
        folded      == IF tithi_num <= 15 THEN tithi_num ELSE tithi_num - 15
    IN  [tithi_number |-> folded,
         tithi_name   |-> At(TITHIS, folded - 1),
         tithi_end    |-> IF k # 0 THEN TimeStr(at + k * HalfHour, tzoff) ELSE <<23, 59>>,
         paksha       |-> IF tithi_num <= 15 THEN "Shukla Paksha" ELSE "Krishna Paksha"]

nakshatra_span == Circle \div 27

\* a 48-step loop without the test for the wrap from the last mansion
RECURSIVE NakshatraEndStep_NoWrap(_, _, _)
NakshatraEndStep_NoWrap(at, next_nakshatra_angle, k) ==
    IF k > 48 THEN 0
    ELSE IF CalcUt(at + k * HalfHour, MOON) >= next_nakshatra_angle THEN k
    ELSE NakshatraEndStep_NoWrap(at, next_nakshatra_angle, k + 1)

\* the 48-step loop of MuhurtamCalculator._calculate_nakshatra
RECURSIVE NakshatraEndStep(_, _, _)
NakshatraEndStep(at, next_nakshatra_angle, k) ==
    IF k > 48 THEN 0
    ELSE LET moon_pos_temp == CalcUt(at + k * HalfHour, MOON)
         IN  IF \/ moon_pos_temp >= next_nakshatra_angle
                \/ (moon_pos_temp < nakshatra_span
                    /\ next_nakshatra_angle >= Circle - nakshatra_span)
             THEN k
             ELSE NakshatraEndStep(at, next_nakshatra_angle, k + 1)

\* MuhurtamCalculator._calculate_nakshatra
M_calculate_nakshatra(at, tzoff) ==
    LET moon_pos      == CalcUt(at, MOON)
        nakshatra_num == (moon_pos \div nakshatra_span) + 1
        next_nakshatra_angle == nakshatra_num * nakshatra_span
        k             == NakshatraEndStep(at, next_nakshatra_angle, 1)
    IN  [nakshatra_number |-> nakshatra_num,
         nakshatra_name   |-> At(NAKSHATRAS, nakshatra_num - 1),
         nakshatra_end    |-> IF k # 0 THEN TimeStr(at + k * HalfHour, tzoff)
                              ELSE <<23, 59>>]

\* MuhurtamCalculator._calculate_masa_paksha
M_calculate_masa_paksha(at) ==
    LET moon_pos    == CalcUt(at, MOON)
        sun_pos     == CalcUt(at, SUN)
        tithi_angle == (moon_pos - sun_pos) % Circle
        tithi_num   == (tithi_angle \div (12 * UnitsPerDegree)) + 1
        rashi_num   == (sun_pos \div (30 * UnitsPerDegree)) + 1
        masa_index  == (rashi_num - 1) % 12
    IN  [masa   |-> At(MASAS, masa_index),
         paksha |-> IF tithi_num <= 15 THEN "Shukla Paksha" ELSE "Krishna Paksha"]

\* 'Krishna' in paksha_name
HasKrishna(paksha_name) == paksha_name = "Krishna Paksha"

\* an argument check that lets every type through
KnownType_Any(type) == TRUE

\* line 67: the argument check
KnownType(type) == type \in DOMAIN auspicious_tithis

\* a weekday rule that counts weekdays from Monday = 1
WeekdaySkipped_IsoWeekday(type, date) ==
    type = "marriage" /\ InList(Weekday(date) + 1, marriage_avoid_weekdays)

\* line 83: the weekday rule
WeekdaySkipped(type, date) ==
    type = "marriage" /\ InList(Weekday(date), marriage_avoid_weekdays)

\* a test that accepts on either index
IsAuspicious_Either(type, tithi_index, nakshatra_index) ==
    \/ InList(tithi_index, auspicious_tithis[type])
    \/ InList(nakshatra_index, auspicious_nakshatras[type])

\* lines 108-109: the lunar-day and mansion test
IsAuspicious(type, tithi_index, nakshatra_index) ==
    /\ InList(tithi_index, auspicious_tithis[type])
    /\ InList(nakshatra_index, auspicious_nakshatras[type])

\* lines 112-117: the month and fortnight rule
MasaSkipped(type, masa_name, paksha_name) ==
    /\ type = "marriage"
    /\ InList(masa_name, marriage_avoid_masas)
    /\ HasKrishna(paksha_name)

\* lines 99-130: the date evaluated at its sunrise; the entry appended, or
\* <<>> when the date is rejected
EvaluateDate(type, date, tzoff, sunrise_jd) ==
    LET tithi_info     == M_calculate_tithi(sunrise_jd, tzoff)
        nakshatra_info == M_calculate_nakshatra(sunrise_jd, tzoff)
        masa_paksha    == M_calculate_masa_paksha(sunrise_jd)
        tithi_index     == tithi_info.tithi_number - 1
        nakshatra_index == nakshatra_info.nakshatra_number - 1
    IN  IF IsAuspicious(type, tithi_index, nakshatra_index)
        THEN IF MasaSkipped(type, masa_paksha.masa, masa_paksha.paksha)
             THEN <<>>
             ELSE << [date          |-> date,
                      day           |-> At(WeekdayNames, Weekday(date)),
                      tithi         |-> tithi_info.tithi_name,
                      tithi_end     |-> tithi_info.tithi_end,
                      nakshatra     |-> nakshatra_info.nakshatra_name,
                      nakshatra_end |-> nakshatra_info.nakshatra_end,
                      masa          |-> masa_paksha.masa,
                      paksha        |-> masa_paksha.paksha] >>
        ELSE <<>>

\* an except clause that falls through to the evaluation
OnRiseFailure_FallsThrough(type, date, tzoff) ==
    EvaluateDate(type, date, tzoff, RiseTrans(JulianDay(date, tzoff)))

\* lines 95-97: the except clause, which passes over the date
OnRiseFailure(type, date, tzoff) == <<>>

\* one pass of the body of the while loop (lines 82-130) for the date: the
\* entry appended, or <<>> when the date is passed over
ScanEntry(type, date, tzoff) ==
    LET jd_midnight == JulianDay(date, tzoff)
    IN  IF WeekdaySkipped(type, date) THEN <<>>
        ELSE IF RiseFails(jd_midnight) THEN OnRiseFailure(type, date, tzoff)
        ELSE EvaluateDate(type, date, tzoff, RiseTrans(jd_midnight))

\* whether the pass for the date reaches the swe.rise_trans call
CallsRise(type, date) == ~WeekdaySkipped(type, date)

-----------------------------------------------------------------------------
(* The ephemeris behaviours and the arguments the model draws from *)

\* the Sun near 280 degrees on Jan 1, moving 0.987 degrees a day; the Moon's
\* elongation moving 12.19 degrees a day
SunStarts   == {280 * UnitsPerDegree}
SunRates    == {296}
ElongStarts == {90 * UnitsPerDegree, 213 * UnitsPerDegree}
ElongRates  == {3657}
\* sunrise at 00:30 UTC (06:00 at +05:30) or 11:30 UTC (06:30 at -05:00)
RiseTimes  == {30 * TicksPerMinute, 690 * TicksPerMinute}
\* the days (counted from Jan 1 of FirstYear) on which no sunrise is found
FailPatterns == {[from |-> 1, to |-> 0, every |-> 1],
                 [from |-> 20, to |-> 50, every |-> 1],
                 [from |-> 3, to |-> 2000, every |-> 4]}

\* the parts of the provider that calculate_muhurtam_dates does not read:
\* sunrise at the same time every day, an 11.5 hour day, the Moon rising
\* and setting, status 0 for every rise and set
SteadySky == [rise_step : {0}, day_len : {690 * TicksPerMinute},
              moonrise : {200 * TicksPerMinute}, moonset : {900 * TicksPerMinute},
              sun_res : {0}, moonrise_res : {0}, moonset_res : {0}]

\* a record with the fields of both
Join(a, b) ==
    [f \in (DOMAIN a) \cup (DOMAIN b) |-> IF f \in DOMAIN a THEN a[f] ELSE b[f]]

Ephemerides ==
    {Join(e, s) : e \in [sun0 : SunStarts, sun_rate : SunRates, elong0 : ElongStarts,
                         elong_rate : ElongRates, rise : RiseTimes, fail : FailPatterns],
                  s \in SteadySky}

TypeArgs == MuhurtamTypes \cup {"engagement"}
TzArgs   == {330, -300}

NoDate == <<0, 0, 0>>

-----------------------------------------------------------------------------
(* calculate_muhurtam_dates as a state machine *)

\* no transition finder is running
FinderIdle ==
    /\ finder = "none"
    /\ karana_i = 0
    /\ jd = 0
    /\ target = 0
    /\ jd_start = 0
    /\ jd_end = 0
    /\ iterations = 0
    /\ found = <<>>
    /\ end_time = <<>>
    /\ fpc = "idle"
    /\ rerun = <<>>

\* calculate_panchangam has not been called
SnapshotIdle ==
    /\ req_date = NoDate
    /\ panchangam = <<>>
    /\ ppc = "idle"

\* get_panchangam_range has not been called
RangeIdle ==
    /\ start_dt = NoDate
    /\ end_dt = NoDate
    /\ location = "none"
    /\ current_dt = NoDate
    /\ panchangam_list = <<>>
    /\ range_response = <<>>
    /\ rpc = "idle"

\* no request has been made of the API (main.py)
\* the Muhurtam endpoints are not part of the run
CacheIdle ==
    /\ scan_results = <<>>
    /\ cache = <<>>
    /\ cache_log = <<>>
    /\ request = <<>>
    /\ response = <<>>

ApiIdle == RangeIdle /\ CacheIdle

\* no longitudes have been classified
ClassIdle ==
    /\ calc_sun = <<0, 0>>
    /\ calc_moon = <<0, 0>>
    /\ indices = <<>>

Init ==
    /\ eph \in Ephemerides
    /\ muhurtam_type = "none"
    /\ year = 0
    /\ tz = 0
    /\ current_date = NoDate
    /\ auspicious_dates = <<>>
    /\ pc = "idle"
    /\ rise_calls = 0
    /\ FinderIdle
    /\ SnapshotIdle
    /\ ApiIdle
    /\ ClassIdle

\* the call: argument check and the locals' initial values (lines 67-79)
StartScan(y, type, tzoff) ==
    /\ pc = "idle"
    /\ muhurtam_type' = type
    /\ year' = y
    /\ tz' = tzoff
    /\ IF ~KnownType(type)
       THEN /\ pc' = "raised"
            /\ UNCHANGED <<current_date, auspicious_dates>>
       ELSE /\ pc' = "scan"
            /\ current_date' = <<y, 1, 1>>
            /\ auspicious_dates' = <<>>
    /\ UNCHANGED <<eph, rise_calls, finderVars, snapVars, apiVars, classVars>>

\* one iteration of the while loop (lines 81-132)
ScanDate ==
    /\ pc = "scan"
    /\ DateLeq(current_date, <<year, 12, 31>>)
    /\ auspicious_dates' = auspicious_dates \o ScanEntry(muhurtam_type, current_date, tz)
    /\ rise_calls' = rise_calls + (IF CallsRise(muhurtam_type, current_date) THEN 1 ELSE 0)
    /\ current_date' = NextDay(current_date)
    /\ UNCHANGED <<eph, muhurtam_type, year, tz, pc, finderVars, snapVars, apiVars, classVars>>

\* loop exit and return (lines 81, 134)
ScanReturn ==
    /\ pc = "scan"
    /\ ~DateLeq(current_date, <<year, 12, 31>>)
    /\ pc' = "returned"
    /\ UNCHANGED <<eph, muhurtam_type, year, tz, current_date, auspicious_dates, rise_calls,
                   finderVars, snapVars, apiVars, classVars>>

Next ==
    \/ \E y \in Years, type \in TypeArgs, tzoff \in TzArgs : StartScan(y, type, tzoff)
    \/ ScanDate
    \/ ScanReturn

Spec == Init /\ [][Next]_vars

\* the scan as a running program: a call that has entered the loop keeps
\* taking its next step until it returns.  One marriage scan of the first year.
\* one behaviour of the provider, with the sunrise failing every fourth day
FairEphemerides ==
    {e \in Ephemerides : /\ e.elong0 = 213 * UnitsPerDegree
                         /\ e.fail.every = 4
                         /\ e.rise = 30 * TicksPerMinute}

InitScanFair ==
    /\ eph \in FairEphemerides
    /\ muhurtam_type = "none"
    /\ year = 0
    /\ tz = 0
    /\ current_date = NoDate
    /\ auspicious_dates = <<>>
    /\ pc = "idle"
    /\ rise_calls = 0
    /\ FinderIdle
    /\ SnapshotIdle
    /\ ApiIdle
    /\ ClassIdle

NextScanFair ==
    \/ StartScan(FirstYear, "marriage", 330)
    \/ ScanDate
    \/ ScanReturn

SpecScanFair ==
    InitScanFair /\ [][NextScanFair]_vars /\ WF_vars(ScanDate) /\ WF_vars(ScanReturn)

-----------------------------------------------------------------------------
(* PanchangamCalculator (panchangam.py): the sunrise classifiers of            *)
(* _calculate_tithi, _calculate_nakshatra and _calculate_yoga and the          *)
(* transition finders they call                                                *)

Finders == {"_find_transition", "_find_moon_transition", "_find_yoga_transition",
            "_find_karana_end"}

\* the value the finder reads at an instant (lines 400-402, 420, 438-440);
\* _find_karana_end hands over to _find_transition (line 453)
Current(f, t) ==
    CASE f = "_find_transition"      -> (CalcUt(t, MOON) - CalcUt(t, SUN)) % Circle
      [] f = "_find_karana_end"      -> (CalcUt(t, MOON) - CalcUt(t, SUN)) % Circle
      [] f = "_find_moon_transition" -> CalcUt(t, MOON)
      [] f = "_find_yoga_transition" -> (CalcUt(t, SUN) + CalcUt(t, MOON)) % Circle

\* the sector width of the caller: 12 degrees for the lunar day, 360/27
\* degrees for the mansion and the yoga, 6 degrees for the karana
\* (lines 136, 156, 175, 193)
SectorWidth(f) ==
    CASE f = "_find_transition" -> 12 * UnitsPerDegree
      [] f = "_find_karana_end" -> 6 * UnitsPerDegree
      [] OTHER                  -> Circle \div 27

\* tithi_num, nakshatra_num, yoga_num, karana_num: the sector of an angle
\* (lines 136, 156, 175, 193)
SectorNum(f, angle) ==
    IF f = "_find_karana_end" THEN (angle \div SectorWidth(f)) % 60
    ELSE angle \div SectorWidth(f)

\* a target that is not reduced mod 360
NextBoundary_NoMod(f, i, t) ==
    (SectorNum(f, Current(f, t)) + i + 1) * SectorWidth(f)

\* the target the caller passes: the next sector boundary, mod 360
\* (lines 139, 159, 178); for the i-th karana of the day, the boundary
\* i sectors further (lines 209, 453)
NextBoundary(f, i, t) ==
    ((SectorNum(f, Current(f, t)) + i + 1) * SectorWidth(f)) % Circle

\* the angular tolerance of the early return: 0.1 degree, 0.01 for the Moon
\* (lines 404, 422, 442)
Tolerance(f) ==
    IF f = "_find_moon_transition" THEN UnitsPerDegree \div 100 ELSE UnitsPerDegree \div 10

\* precision = 1 / (24 * 60)
Precision == TicksPerMinute

\* a midpoint taken at the lower bound
Midpoint_Low(a, b) == a

\* jd_mid = (jd_start + jd_end) / 2
Midpoint(a, b) == (a + b) \div 2

\* "..._end": self._jd_to_time_str(end_jd, timezone) if end_jd else None
\* (false only for None and for Julian day 0.0, which is no instant of the
\* model's time scale)
EndField(result, tzoff) ==
    IF result # <<>> THEN <<TimeStr(result[1], tzoff)>> ELSE <<>>

\* the latest day (counted from Jan 1 of FirstYear) whose sunrise anchors a call
MaxAnchorDay == 29

\* the caller: the sector at the anchor instant, the target, and the call
\* finder(jd, jd + 1, target)
StartFinder(f, i, day, tzoff) ==
    /\ fpc = "idle"
    /\ pc = "idle"
    /\ ppc = "idle"
    /\ i = 0 \/ f = "_find_karana_end"
    /\ karana_i' = i
    /\ LET sunrise_jd == Sunrise(day)
       IN  /\ jd' = sunrise_jd
           /\ target' = NextBoundary(f, i, sunrise_jd)
           /\ jd_start' = sunrise_jd
           /\ jd_end' = sunrise_jd + TicksPerDay
    /\ finder' = f
    /\ tz' = tzoff
    /\ iterations' = 0
    /\ fpc' = "loop"
    /\ UNCHANGED <<eph, scanVars, found, end_time, rerun, snapVars, apiVars, classVars>>

\* one pass of the while loop: the early return, or one bound moved to the midpoint
FinderStep ==
    /\ fpc = "loop"
    /\ (jd_end - jd_start) > Precision
    /\ iterations' = iterations + 1
    /\ LET jd_mid  == Midpoint(jd_start, jd_end)
           current == Current(finder, jd_mid)
       IN  IF Abs(current - target) < Tolerance(finder)
           THEN /\ found' = <<jd_mid>>
                /\ end_time' = EndField(<<jd_mid>>, tz)
                /\ fpc' = "returned"
                /\ UNCHANGED <<jd_start, jd_end>>
           ELSE IF current < target
           THEN /\ jd_start' = jd_mid
                /\ UNCHANGED <<jd_end, found, end_time, fpc>>
           ELSE /\ jd_end' = jd_mid
                /\ UNCHANGED <<jd_start, found, end_time, fpc>>
    /\ UNCHANGED <<eph, tz, scanVars, finder, karana_i, jd, target, rerun, snapVars, apiVars,
                   classVars>>

\* the loop exit: return (jd_start + jd_end) / 2
FinderExit ==
    /\ fpc = "loop"
    /\ ~((jd_end - jd_start) > Precision)
    /\ found' = <<Midpoint(jd_start, jd_end)>>
    /\ end_time' = EndField(<<Midpoint(jd_start, jd_end)>>, tz)
    /\ fpc' = "returned"
    /\ UNCHANGED <<eph, tz, scanVars, finder, karana_i, jd, target, jd_start, jd_end,
                   iterations, rerun, snapVars, apiVars, classVars>>

\* the finder called again with the same target on an interval whose midpoint
\* is the instant it returned
RerunHalfWidths == {TicksPerDay \div 2, TicksPerMinute}
RerunFinder(half) ==
    /\ fpc = "returned"
    /\ rerun = <<>>
    /\ found # <<>>
    /\ jd_start' = found[1] - half
    /\ jd_end' = found[1] + half
    /\ rerun' = [result |-> found[1], jd_start |-> found[1] - half, jd_end |-> found[1] + half]
    /\ iterations' = 0
    /\ found' = <<>>
    /\ end_time' = <<>>
    /\ fpc' = "loop"
    /\ UNCHANGED <<eph, tz, scanVars, finder, karana_i, jd, target, snapVars, apiVars, classVars>>

\* the ephemeris behaviours of the finder runs: the elongation advancing
\* 10.8, 12.19 or 14 degrees a day
FinderElongStarts == {0, 100 * UnitsPerDegree + 77, 245 * UnitsPerDegree + 160}
FinderElongRates  == {3244, 3657, 4204}
NeverFails == [from |-> 1, to |-> 0, every |-> 1]

\* sunrise at the same time every day, or half a minute earlier every day
FinderRiseSteps == {0, -(TicksPerMinute \div 2)}

FinderEphemerides ==
    {Join(e, s) : e \in [sun0 : SunStarts, sun_rate : SunRates, elong0 : FinderElongStarts,
                         elong_rate : FinderElongRates, rise : RiseTimes,
                         fail : {NeverFails}, rise_step : FinderRiseSteps],
                  s \in SteadySky}

InitFinder ==
    /\ eph \in FinderEphemerides
    /\ muhurtam_type = "none"
    /\ year = 0
    /\ tz = 0
    /\ current_date = NoDate
    /\ auspicious_dates = <<>>
    /\ pc = "idle"
    /\ rise_calls = 0
    /\ FinderIdle
    /\ SnapshotIdle
    /\ ApiIdle
    /\ ClassIdle

NextFinder ==
    \/ \E f \in Finders, i \in 0 .. 1, day \in 0 .. MaxAnchorDay, tzoff \in TzArgs :
           StartFinder(f, i, day, tzoff)
    \/ FinderStep
    \/ FinderExit

SpecFinder == InitFinder /\ [][NextFinder]_vars

\* the finders run twice: a call from a sunrise of the first days, then a call
\* on an interval around its result
MaxRerunDay == 9

NextRerun ==
    \/ \E f \in Finders, i \in 0 .. 1, day \in 0 .. MaxRerunDay, tzoff \in TzArgs :
           StartFinder(f, i, day, tzoff)
    \/ FinderStep
    \/ FinderExit
    \/ \E half \in RerunHalfWidths : RerunFinder(half)

SpecRerun == InitFinder /\ [][NextRerun]_vars

-----------------------------------------------------------------------------
(* PanchangamCalculator.calculate_panchangam (panchangam.py) *)

YOGAS == <<
    "Vishkambha", "Priti", "Ayushman", "Saubhagya", "Shobhana", "Atiganda",
    "Sukarma", "Dhriti", "Shoola", "Ganda", "Vriddhi", "Dhruva", "Vyaghata",
    "Harshana", "Vajra", "Siddhi", "Vyatipata", "Variyana", "Parigha", "Shiva",
    "Siddha", "Sadhya", "Shubha", "Shukla", "Brahma", "Indra", "Vaidhriti" >>

KARANAS == <<
    "Bava", "Balava", "Kaulava", "Taitila", "Garaja", "Vanija", "Vishti",
    "Shakuni", "Chatushpada", "Naga", "Kimstughna" >>

RASHIS == <<
    "Aries", "Taurus", "Gemini", "Cancer", "Leo", "Virgo", "Libra", "Scorpio",
    "Sagittarius", "Capricorn", "Aquarius", "Pisces" >>

RUTHUS == << "Vasanta", "Grishma", "Varsha", "Sharad", "Hemanta", "Shishira" >>

AYANAS == << "Uttarayana", "Dakshinayana" >>

samvatsaras == <<
    "Prabhava", "Vibhava", "Shukla", "Pramoda", "Prajapati", "Angirasa",
    "Shrimukha", "Bhava", "Yuva", "Dhatri", "Ishvara", "Bahudhanya",
    "Pramadhi", "Vikrama", "Vrisha", "Chitrabhanu", "Svabhanu", "Tarana",
    "Parthiva", "Vyaya", "Sarvajit", "Sarvadharin", "Virodhi", "Vikrita",
    "Khara", "Nandana", "Vijaya", "Jaya", "Manmatha", "Durmukha",
    "Hevilambi", "Vilambi", "Vikari", "Sharvari", "Plava", "Shubhakrit",
    "Shobhana", "Krodhi", "Vishvavasu", "Parabhava", "Plavanga", "Kilaka",
    "Saumya", "Sadharana", "Virodhikrit", "Paridhavin", "Pramadicha",
    "Ananda", "Rakshasa", "Nala", "Pingala", "Kalayukta", "Siddharthi",
    "Raudra", "Durmathi", "Dundubhi", "Rudhirodgari", "Raktakshi",
    "Krodhana", "Akshaya" >>

\* rahu_periods, yama_periods: Monday to Sunday
rahu_periods == <<7, 1, 6, 4, 5, 3, 2>>
yama_periods == <<4, 3, 2, 1, 7, 6, 5>>

CALC_RISE == "CALC_RISE"
CALC_SET == "CALC_SET"

\* the first sunset at or after t: every sunset is eph.day_len after its sunrise
SetTrans(t) ==
    Sunrise((t - eph.rise - eph.day_len + RisePeriod - 1) \div RisePeriod) + eph.day_len

\* the first moonrise or moonset at or after t: every day at the same time UTC
MoonTrans(t, rsmi) ==
    LET at0 == IF rsmi = CALC_RISE THEN eph.moonrise ELSE eph.moonset
    IN  ((t - at0 + TicksPerDay - 1) \div TicksPerDay) * TicksPerDay + at0

\* what swe.rise_trans leaves in tret[0] when it finds no event (status -2);
\* the origin of the model's time scale stands for it
StaleTret == 0

\* swe.rise_trans(t, body, rsmi, geopos) when it does not raise: <<res, tret[0]>>,
\* res 0 with the instant of the event, or -2 (no rise or set: the body is
\* circumpolar) with no instant
swe_rise_trans(t, body, rsmi) ==
    LET res == IF body = SUN THEN eph.sun_res
               ELSE IF rsmi = CALC_RISE THEN eph.moonrise_res ELSE eph.moonset_res
        event == IF body = MOON THEN MoonTrans(t, rsmi)
                 ELSE IF rsmi = CALC_RISE THEN RiseTrans(t) ELSE SetTrans(t)
    IN  IF res = 0 THEN <<0, event>> ELSE <<res, StaleTret>>

\* swe.revjul(t)[0]: the year of the UTC date of the instant
RevjulYear(t) ==
    CHOOSE y \in (FirstYear - 1) .. (FirstYear + NumYears) :
        /\ DayNumber(<<y, 1, 1>>) * TicksPerDay <= t
        /\ t < DayNumber(<<y + 1, 1, 1>>) * TicksPerDay

\* the finders as functions: the loop of _find_transition, _find_moon_transition
\* and _find_yoga_transition run to its return value
RECURSIVE FindTransition(_, _, _, _)
FindTransition(f, a, b, tgt) ==
    IF (b - a) > Precision
    THEN LET jd_mid  == Midpoint(a, b)
             current == Current(f, jd_mid)
         IN  IF Abs(current - tgt) < Tolerance(f) THEN jd_mid
             ELSE IF current < tgt THEN FindTransition(f, jd_mid, b, tgt)
             ELSE FindTransition(f, a, jd_mid, tgt)
    ELSE Midpoint(a, b)

\* a moonrise/moonset field that ignores the status
MoonField_AnyStatus(result, tzoff) == <<TimeStr(result[2], tzoff)>>

\* moonrise, moonset: the time if the status is 0, else None (lines 118-119)
MoonField(result, tzoff) ==
    IF result[1] = 0 THEN <<TimeStr(result[2], tzoff)>> ELSE <<>>

\* _calculate_sun_times
P_calculate_sun_times(at, tzoff) ==
    LET sunrise_jd      == swe_rise_trans(at, SUN, CALC_RISE)[2]
        sunset_jd       == swe_rise_trans(at, SUN, CALC_SET)[2]
        moonrise_result == swe_rise_trans(at, MOON, CALC_RISE)
        moonset_result  == swe_rise_trans(at, MOON, CALC_SET)
    IN  [sunrise  |-> TimeStr(sunrise_jd, tzoff),
         sunset   |-> TimeStr(sunset_jd, tzoff),
         moonrise |-> MoonField(moonrise_result, tzoff),
         moonset  |-> MoonField(moonset_result, tzoff)]

\* a name lookup that takes the entry of the same place in the first fortnight
TithiEntry_Folded(tithi_num) == At(TITHIS, tithi_num % 15)

\* TITHIS[tithi_num]; an entry is represented by its English name
TithiEntry(tithi_num) == At(TITHIS, tithi_num)

\* _calculate_tithi
P_calculate_tithi(at, tzoff) ==
    LET f         == "_find_transition"
        tithi_num == SectorNum(f, Current(f, at))
        end_jd    == FindTransition(f, at, at + TicksPerDay, NextBoundary(f, 0, at))
    IN  [tithi_name |-> TithiEntry(tithi_num),
         tithi_end  |-> EndField(<<end_jd>>, tzoff),
         paksha     |-> IF tithi_num < 15 THEN "Shukla Paksha" ELSE "Krishna Paksha"]

\* _calculate_nakshatra
P_calculate_nakshatra(at, tzoff) ==
    LET f             == "_find_moon_transition"
        nakshatra_num == SectorNum(f, Current(f, at))
        end_jd        == FindTransition(f, at, at + TicksPerDay, NextBoundary(f, 0, at))
    IN  [nakshatra_name |-> At(NAKSHATRAS, nakshatra_num),
         nakshatra_end  |-> EndField(<<end_jd>>, tzoff)]

\* _calculate_yoga
P_calculate_yoga(at, tzoff) ==
    LET f        == "_find_yoga_transition"
        yoga_num == SectorNum(f, Current(f, at))
        end_jd   == FindTransition(f, at, at + TicksPerDay, NextBoundary(f, 0, at))
    IN  [yoga_name |-> At(YOGAS, yoga_num),
         yoga_end  |-> EndField(<<end_jd>>, tzoff)]

Min(a, b) == IF a <= b THEN a ELSE b

\* a folding that repeats the seven movable entries through every slot
KaranaIndex_AllRepeat(k_num) == k_num % 7

\* k_idx of a karana slot (lines 204-207)
KaranaIndex(k_num) ==
    IF k_num < 57 THEN k_num % 7 ELSE 7 + (k_num - 57)

\* the entry reported for a karana slot: KARANAS[min(k_idx, 10)]
KaranaEntry(k_num) == At(KARANAS, Min(KaranaIndex(k_num), 10))

\* _calculate_karana: the two entries of karana_json
P_calculate_karana(at, tzoff) ==
    LET f          == "_find_karana_end"
        karana_num == SectorNum(f, Current(f, at))
        item(i)    ==
            LET k_num  == (karana_num + i) % 60
                end_jd == FindTransition(f, at, at + TicksPerDay, NextBoundary(f, i, at))
            IN  [name |-> KaranaEntry(k_num), end |-> EndField(<<end_jd>>, tzoff)]
    IN  [karana_json |-> <<item(0), item(1)>>]

\* _calculate_masa_paksha
P_calculate_masa_paksha(at) ==
    LET sun_pos   == CalcUt(at, SUN)
        moon_pos  == CalcUt(at, MOON)
        masa_num  == sun_pos \div (30 * UnitsPerDegree)
        tithi_num == ((moon_pos - sun_pos) % Circle) \div (12 * UnitsPerDegree)
    IN  [masa   |-> At(MASAS, masa_num % 12),
         paksha |-> IF tithi_num < 15 THEN "Shukla Paksha" ELSE "Krishna Paksha"]

\* _calculate_samvatsara
P_calculate_samvatsara(at) ==
    LET gregorian_year == RevjulYear(at)
        year_offset    == (gregorian_year - 1987) % 60
    IN  [samvatsaram |-> At(samvatsaras, year_offset)]

\* _calculate_ayana_ruthu
P_calculate_ayana_ruthu(at) ==
    LET sun_pos   == CalcUt(at, SUN)
        ruthu_num == (sun_pos % Circle) \div (60 * UnitsPerDegree)
    IN  [ayana |-> IF 270 * UnitsPerDegree <= sun_pos \/ sun_pos < 90 * UnitsPerDegree
                   THEN At(AYANAS, 0) ELSE At(AYANAS, 1),
         ruthu |-> At(RUTHUS, ruthu_num)]

\* _calculate_rashis
P_calculate_rashis(at) ==
    [suryarashi   |-> At(RASHIS, CalcUt(at, SUN) \div (30 * UnitsPerDegree)),
     chandrarashi |-> At(RASHIS, CalcUt(at, MOON) \div (30 * UnitsPerDegree))]

\* weekday = int((jd + 1.5) % 7).  The Julian day of instant t is
\* N - 0.5 + t / TicksPerDay, where N is the Julian day number of Jan 1 of
\* FirstYear and N % 7 is that date's weekday counted from Monday = 0; so
\* int((jd + 1.5) % 7) = (N + 1 + floor(t / TicksPerDay)) % 7
JdWeekday(t) ==
    (Weekday(<<FirstYear, 1, 1>>) + 1 + (t \div TicksPerDay)) % 7

\* a {"start": ..., "end": ...} pair of local times
Window(from, to, tzoff) == [start |-> TimeStr(from, tzoff), end |-> TimeStr(to, tzoff)]

\* a day divided into 7 segments instead of 8
P_calculate_inauspicious_times_Sevenths(at, tzoff) ==
    LET sunrise_jd   == swe_rise_trans(at, SUN, CALC_RISE)[2]
        sunset_jd    == swe_rise_trans(at, SUN, CALC_SET)[2]
        day_duration == sunset_jd - sunrise_jd
        segment      == day_duration \div 7
        weekday      == JdWeekday(at)
        rahu_start_jd == sunrise_jd + At(rahu_periods, weekday) * segment
        yama_start_jd == sunrise_jd + At(yama_periods, weekday) * segment
        durmu_morning_start == sunrise_jd + 6 * 60 * TicksPerMinute
        varjyam_start_jd    == sunrise_jd + (day_duration * 4) \div 10
    IN  [rahukalam  |-> Window(rahu_start_jd, rahu_start_jd + segment, tzoff),
         yamagandam |-> Window(yama_start_jd, yama_start_jd + segment, tzoff),
         varjyam    |-> Window(varjyam_start_jd, varjyam_start_jd + 48 * TicksPerMinute, tzoff),
         durmuhurtham_json |->
             << Window(durmu_morning_start, durmu_morning_start + 48 * TicksPerMinute, tzoff),
                Window(sunset_jd - 48 * TicksPerMinute, sunset_jd, tzoff) >>]

\* _calculate_inauspicious_times
P_calculate_inauspicious_times(at, tzoff) ==
    LET sunrise_jd   == swe_rise_trans(at, SUN, CALC_RISE)[2]
        sunset_jd    == swe_rise_trans(at, SUN, CALC_SET)[2]
        day_duration == sunset_jd - sunrise_jd
        segment      == day_duration \div 8
        weekday      == JdWeekday(at)
        rahu_start_jd == sunrise_jd + At(rahu_periods, weekday) * segment
        yama_start_jd == sunrise_jd + At(yama_periods, weekday) * segment
        durmu_morning_start == sunrise_jd + 6 * 60 * TicksPerMinute
        varjyam_start_jd    == sunrise_jd + (day_duration * 4) \div 10
    IN  [rahukalam  |-> Window(rahu_start_jd, rahu_start_jd + segment, tzoff),
         yamagandam |-> Window(yama_start_jd, yama_start_jd + segment, tzoff),
         varjyam    |-> Window(varjyam_start_jd, varjyam_start_jd + 48 * TicksPerMinute, tzoff),
         durmuhurtham_json |->
             << Window(durmu_morning_start, durmu_morning_start + 48 * TicksPerMinute, tzoff),
                Window(sunset_jd - 48 * TicksPerMinute, sunset_jd, tzoff) >>]

\* _calculate_auspicious_times
P_calculate_auspicious_times(at, tzoff) ==
    LET sunrise_jd       == swe_rise_trans(at, SUN, CALC_RISE)[2]
        sunset_jd        == swe_rise_trans(at, SUN, CALC_SET)[2]
        muhurta_duration == (sunset_jd - sunrise_jd) \div 15
        abhijit_start_jd == sunrise_jd + 7 * muhurta_duration
        amrutha_start_jd == sunrise_jd + 2 * muhurta_duration
    IN  [abhijit_muhurtham |->
             Window(abhijit_start_jd, abhijit_start_jd + muhurta_duration, tzoff),
         amruthakalam |->
             Window(amrutha_start_jd, amrutha_start_jd + muhurta_duration, tzoff)]

\* the dict that calculate_panchangam builds and returns (lines 39-93)
Snapshot(date, tzoff) ==
    LET jd_midnight == JulianDay(date, tzoff)
        sun_times   == P_calculate_sun_times(jd_midnight, tzoff)
        sunrise_jd  == swe_rise_trans(jd_midnight, SUN, CALC_RISE)[2]
    IN  Join([date |-> date, timezone |-> tzoff],
        Join(sun_times,
        Join(P_calculate_tithi(sunrise_jd, tzoff),
        Join(P_calculate_nakshatra(sunrise_jd, tzoff),
        Join(P_calculate_yoga(sunrise_jd, tzoff),
        Join(P_calculate_karana(sunrise_jd, tzoff),
        Join(P_calculate_masa_paksha(sunrise_jd),
        Join(P_calculate_samvatsara(sunrise_jd),
        Join(P_calculate_ayana_ruthu(sunrise_jd),
        Join(P_calculate_rashis(sunrise_jd),
        Join(P_calculate_inauspicious_times(jd_midnight, tzoff),
             P_calculate_auspicious_times(jd_midnight, tzoff))))))))))))

\* the arguments of a call: the date, and a timezone in which the place's
\* sunrise falls between 04:00 and 09:00 local time
SnapshotMonths == {1, 12}
SnapshotDates ==
    {<<y, m, d>> : y \in Years, m \in SnapshotMonths, d \in 1 .. 31}
PanchangamTzArgs == TzArgs \cup {0, 540}
MorningSunrise(tzoff) ==
    (((eph.rise \div TicksPerMinute) + tzoff) % MinutesPerDay) \in (4 * 60) .. (9 * 60)

\* calculate_panchangam: the snapshot, or the exception of a swe.rise_trans
\* that raises (the first call is the one of line 108)
CalculatePanchangam(date, tzoff) ==
    /\ ppc = "idle"
    /\ pc = "idle"
    /\ fpc = "idle"
    /\ MorningSunrise(tzoff)
    /\ req_date' = date
    /\ tz' = tzoff
    /\ IF RiseFails(JulianDay(date, tzoff))
       THEN /\ ppc' = "raised"
            /\ panchangam' = <<>>
       ELSE /\ ppc' = "returned"
            /\ panchangam' = Snapshot(date, tzoff)
    /\ UNCHANGED <<eph, scanVars, finderVars, apiVars, classVars>>

\* the ephemeris behaviours of the snapshots: sunrise at 00:30, 07:30, 11:30 or
\* 21:50 UTC; the Sun and the Moon rising and setting (status 0) or not (-2);
\* swe.rise_trans raising on days 20..50 or never; a long or a short day
PanchangamRiseTimes == RiseTimes \cup {450 * TicksPerMinute, 1310 * TicksPerMinute}
RiseStatuses == {0, -2}

\* the time from sunrise to sunset: 11.5 hours, or 5 hours
DayLengths == {690 * TicksPerMinute, 300 * TicksPerMinute}

PanchangamEphemerides ==
    {Join(e, s) : e \in [rise : PanchangamRiseTimes, day_len : DayLengths,
                         sun_res : RiseStatuses,
                         moonrise_res : RiseStatuses, moonset_res : RiseStatuses,
                         fail : {NeverFails, [from |-> 20, to |-> 50, every |-> 1]}],
                  s \in {Join(a, b) : a \in [sun0 : SunStarts, sun_rate : SunRates,
                                             elong0 : ElongStarts, elong_rate : ElongRates],
                                      b \in SteadySky}}

InitPanchangam ==
    /\ eph \in PanchangamEphemerides
    /\ muhurtam_type = "none"
    /\ year = 0
    /\ tz = 0
    /\ current_date = NoDate
    /\ auspicious_dates = <<>>
    /\ pc = "idle"
    /\ rise_calls = 0
    /\ FinderIdle
    /\ SnapshotIdle
    /\ ApiIdle
    /\ ClassIdle

NextPanchangam ==
    \E date \in SnapshotDates, tzoff \in PanchangamTzArgs : CalculatePanchangam(date, tzoff)

SpecPanchangam == InitPanchangam /\ [][NextPanchangam]_vars

-----------------------------------------------------------------------------
(* The API (main.py): GET /panchangam/range *)

\* config.LOCATIONS: the places of the model, each with its timezone as a UTC
\* offset in minutes
LOCATIONS ==
    [key \in {"chennai", "newyork"} |->
        IF key = "chennai"
        THEN [name |-> "Chennai, Tamil Nadu", country |-> "India", timezone |-> 330]
        ELSE [name |-> "New York, NY", country |-> "USA", timezone |-> -300]]

\* the largest days_diff that the range check lets through
MaxDaysDiff == 366

\* (end_dt - start_dt).days
DaysDiff(from, to) == DayNumber(to) - DayNumber(from)

\* the date n days after a date: date + timedelta(days=n)
DateAfter(date, n) ==
    CHOOSE later \in {<<y, m, dd>> : y \in date[1] .. (date[1] + 1 + n \div 365),
                                    m \in 1 .. 12, dd \in 1 .. 31} :
        /\ later[3] <= DaysInMonth(later[1], later[2])
        /\ DaysDiff(date, later) = n

\* the checks before the loop: the status of the HTTPException raised, 0 if none.
\* A date argument that strptime does not parse is NoDate.
RangeCheck(start_date, end_date, loc_key) ==
    IF loc_key \notin DOMAIN LOCATIONS THEN 400
    ELSE IF start_date = NoDate \/ end_date = NoDate THEN 400
    ELSE IF DateLess(end_date, start_date) THEN 400
    ELSE IF DaysDiff(start_date, end_date) > MaxDaysDiff THEN 400
    ELSE 0

\* the request: the checks, then the locals' initial values
GetPanchangamRange(start_date, end_date, loc_key) ==
    /\ rpc = "idle"
    /\ pc = "idle"
    /\ fpc = "idle"
    /\ ppc = "idle"
    /\ loc_key \in DOMAIN LOCATIONS => MorningSunrise(LOCATIONS[loc_key].timezone)
    /\ start_dt' = start_date
    /\ end_dt' = end_date
    /\ location' = loc_key
    /\ IF RangeCheck(start_date, end_date, loc_key) # 0
       THEN /\ rpc' = "rejected"
            /\ range_response' = [status_code |-> RangeCheck(start_date, end_date, loc_key)]
            /\ UNCHANGED <<current_dt, panchangam_list>>
       ELSE /\ rpc' = "loop"
            /\ current_dt' = start_date
            /\ panchangam_list' = <<>>
            /\ UNCHANGED range_response
    /\ UNCHANGED <<eph, tz, scanVars, finderVars, snapVars, classVars, cacheVars>>

\* one pass of the while loop: the snapshot of current_dt with its
\* location_info is appended; an exception of calculate_panchangam is caught
\* and answered with status 500
RangePass ==
    /\ rpc = "loop"
    /\ DateLeq(current_dt, end_dt)
    /\ LET loc == LOCATIONS[location]
       IN  IF RiseFails(JulianDay(current_dt, loc.timezone))
           THEN /\ rpc' = "failed"
                /\ range_response' = [status_code |-> 500]
                /\ UNCHANGED <<current_dt, panchangam_list>>
           ELSE /\ panchangam_list' =
                      Append(panchangam_list,
                             Join([location_info |-> [key |-> location, name |-> loc.name,
                                                      country |-> loc.country]],
                                  Snapshot(current_dt, loc.timezone)))
                /\ current_dt' = NextDay(current_dt)
                /\ UNCHANGED <<range_response, rpc>>
    /\ UNCHANGED <<eph, tz, scanVars, finderVars, snapVars, classVars, cacheVars,
                   start_dt, end_dt, location>>

\* the loop's exit and the return
RangeReturn ==
    /\ rpc = "loop"
    /\ ~DateLeq(current_dt, end_dt)
    /\ range_response' = [start_date |-> start_dt, end_date |-> end_dt, location |-> location,
                          count |-> Len(panchangam_list), data |-> panchangam_list]
    /\ rpc' = "returned"
    /\ UNCHANGED <<eph, tz, scanVars, finderVars, snapVars, classVars, cacheVars,
                   start_dt, end_dt, location,
                   current_dt, panchangam_list>>

\* the requests of the model: ranges that start on Jan 1 or Jan 2 of the first
\* year and end the same day, the next day or a year and a day later; a
\* malformed date; an unknown place
RangeStarts == {<<FirstYear, 1, 1>>, <<FirstYear, 1, 2>>}
RangeEnds == {DateAfter(<<FirstYear, 1, 1>>, n) : n \in {0, 1, MaxDaysDiff + 1}}
LocationArgs == DOMAIN LOCATIONS \cup {"atlantis"}

\* the ephemeris behaviours of the range requests: sunrise at 00:30 or 11:30
\* UTC; swe.rise_trans raising on days 20..50 or never
RangeEphemerides ==
    {Join(e, s) : e \in [rise : RiseTimes, sun_res : {0}, moonrise_res : {0},
                         moonset_res : {0},
                         fail : {NeverFails, [from |-> 20, to |-> 50, every |-> 1]}],
                  s \in {Join(a, b) : a \in [sun0 : SunStarts, sun_rate : SunRates,
                                             elong0 : {213 * UnitsPerDegree},
                                             elong_rate : ElongRates],
                                      b \in SteadySky}}

InitRange ==
    /\ eph \in RangeEphemerides
    /\ muhurtam_type = "none"
    /\ year = 0
    /\ tz = 0
    /\ current_date = NoDate
    /\ auspicious_dates = <<>>
    /\ pc = "idle"
    /\ rise_calls = 0
    /\ FinderIdle
    /\ SnapshotIdle
    /\ ApiIdle
    /\ ClassIdle

NextRange ==
    \/ \E start_date \in RangeStarts \cup {NoDate}, end_date \in RangeEnds,
          loc_key \in LocationArgs : GetPanchangamRange(start_date, end_date, loc_key)
    \/ RangePass
    \/ RangeReturn

SpecRange == InitRange /\ [][NextRange]_vars

-----------------------------------------------------------------------------
(* PanchangamCalculator: the table indices of a pair of longitudes, in the
   floating-point arithmetic of the code *)

\* A longitude is a double.  <<u, e>> is the double that lies e ulps from u
\* units, u a whole number of degrees; an ulp is 2^-46 degree, the spacing of
\* the doubles between 64 and 128.
Magnitude(x) ==
    IF x[1] > 0 THEN (IF x[2] < 0 THEN x[1] - 1 ELSE x[1])
    ELSE IF x[1] < 0 THEN (IF x[2] > 0 THEN -x[1] - 1 ELSE -x[1])
    ELSE 0

\* the spacing, in ulps, of the doubles of a value's magnitude (doubles of a
\* magnitude under 64 are taken at the spacing of those between 64 and 128)
Spacing(x) ==
    IF Magnitude(x) < 128 * UnitsPerDegree THEN 1
    ELSE IF Magnitude(x) < 256 * UnitsPerDegree THEN 2
    ELSE IF Magnitude(x) < 512 * UnitsPerDegree THEN 4
    ELSE 8

\* round to nearest, ties to even: the multiple of s nearest to e
RoundHalfEven(e, s) ==
    LET q == e \div s
        r == e % s
    IN  IF 2 * r < s THEN q * s
        ELSE IF 2 * r > s THEN (q + 1) * s
        ELSE IF q % 2 = 0 THEN q * s ELSE (q + 1) * s

\* the double nearest to a real value
RoundToDouble(x) == <<x[1], RoundHalfEven(x[2], Spacing(x))>>

\* a - b and a + b of two doubles
FloatSub(a, b) == RoundToDouble(<<a[1] - b[1], a[2] - b[2]>>)
FloatAdd(a, b) == RoundToDouble(<<a[1] + b[1], a[2] + b[2]>>)

IsNegative(x) == x[1] < 0 \/ (x[1] = 0 /\ x[2] < 0)

\* x % 360 of a double in (-360, 720): fmod(x, 360), which is exact, and for
\* a negative x the sum fmod(x, 360) + 360, which is rounded
PyMod360(x) ==
    IF IsNegative(x) THEN RoundToDouble(<<x[1] + Circle, x[2]>>)
    ELSE IF x[1] > Circle \/ (x[1] = Circle /\ x[2] >= 0) THEN <<x[1] - Circle, x[2]>>
    ELSE x

\* int(x / width) of a double x >= 0 and a sector width: the quotient of a
\* double under a multiple of the width does not round up to the next integer
IntDiv(x, width) ==
    IF x[2] < 0 THEN (x[1] - 1) \div width ELSE x[1] \div width

\* the indices of _calculate_tithi, _calculate_nakshatra, _calculate_yoga,
\* _calculate_karana (k_idx of the two passes and the index after the clamp),
\* _calculate_masa_paksha, _calculate_ayana_ruthu and _calculate_rashis
TableIndices(sun, moon) ==
    LET elongation == PyMod360(FloatSub(moon, sun))
        karana_num == IntDiv(elongation, 6 * UnitsPerDegree) % 60
        k_idx(i)   == KaranaIndex((karana_num + i) % 60)
    IN  [tithi_num      |-> IntDiv(elongation, 12 * UnitsPerDegree),
         nakshatra_num  |-> IntDiv(moon, SectorWidth("_find_moon_transition")),
         yoga_num       |-> IntDiv(PyMod360(FloatAdd(sun, moon)),
                                   SectorWidth("_find_yoga_transition")),
         k_idx          |-> <<k_idx(0), k_idx(1)>>,
         karana_name    |-> <<Min(k_idx(0), 10), Min(k_idx(1), 10)>>,
         masa           |-> IntDiv(sun, 30 * UnitsPerDegree) % 12,
         ruthu_num      |-> IntDiv(PyMod360(sun), 60 * UnitsPerDegree),
         sun_rashi_num  |-> IntDiv(sun, 30 * UnitsPerDegree),
         moon_rashi_num |-> IntDiv(moon, 30 * UnitsPerDegree)]

\* the indices are computed from the longitudes the provider returned
Classify ==
    /\ indices = <<>>
    /\ pc = "idle" /\ fpc = "idle" /\ ppc = "idle" /\ rpc = "idle"
    /\ indices' = TableIndices(calc_sun, calc_moon)
    /\ UNCHANGED <<eph, tz, scanVars, finderVars, snapVars, apiVars, calc_sun, calc_moon>>

\* the longitudes of the model: doubles in [0, 360) at and next to whole
\* degrees, among them the first and the last boundary of every table
ClassDegrees == {0, 6, 12, 40, 100, 180, 200, 300, 348, 354, 359}
UlpOffsets == -4 .. 4
FloatLongitudes ==
    {x \in {<<deg * UnitsPerDegree, e>> : deg \in ClassDegrees, e \in UlpOffsets} :
        /\ ~IsNegative(x)
        /\ x[2] % Spacing(x) = 0}

InitClass ==
    /\ eph \in RangeEphemerides
    /\ muhurtam_type = "none"
    /\ year = 0
    /\ tz = 0
    /\ current_date = NoDate
    /\ auspicious_dates = <<>>
    /\ pc = "idle"
    /\ rise_calls = 0
    /\ FinderIdle
    /\ SnapshotIdle
    /\ ApiIdle
    /\ calc_sun \in FloatLongitudes
    /\ calc_moon \in FloatLongitudes
    /\ indices = <<>>

NextClass == Classify

SpecClass == InitClass /\ [][NextClass]_vars

-----------------------------------------------------------------------------
(* The API (main.py): GET /muhurtam and GET /muhurtam/all, and the cache
   generator (generate_muhurtam_cache.py) *)

\* config.YEARS, the years served: in the model, the first year
YEARS == {FirstYear}

\* valid_types / muhurtam_types, in the order of the list
valid_types == <<"marriage", "grihapravesam", "vehicle", "naamkaranam", "annaprasanam",
                 "upanayanam">>

\* a cache file is named by type, year and location
CacheKeys == MuhurtamTypes \X YEARS \X (DOMAIN LOCATIONS)

\* the n-th date of a year
DateOfYear(y, n) ==
    LET m == CHOOSE m \in 1 .. 12 :
                 DaysBeforeMonth(y, m) < n /\ n <= DaysBeforeMonth(y, m) + DaysInMonth(y, m)
    IN  <<y, m, n - DaysBeforeMonth(y, m)>>

Emitted(entry) == entry # <<>>

\* the passes of calculate_muhurtam_dates over the dates of a year that append
\* an entry, in date order, each with the entry it appends
ScanResult(type, y, tzoff) ==
    SelectSeq([n \in 1 .. DaysBeforeMonth(y, 12) + DaysInMonth(y, 12) |->
                  ScanEntry(type, DateOfYear(y, n), tzoff)], Emitted)

\* the list calculate_muhurtam_dates returns: the entries of those passes
Entries(emitted) == [i \in 1 .. Len(emitted) |-> emitted[i][1]]

\* the dict that is returned and cached for a key and its dates
MuhurtamResult(key, dates) ==
    [year          |-> key[2],
     muhurtam_type |-> key[1],
     location      |-> [key |-> key[3], name |-> LOCATIONS[key[3]].name,
                        country |-> LOCATIONS[key[3]].country],
     count         |-> Len(dates),
     dates         |-> dates]

\* json.dump of a dict: its members, in the order of the dict
ResultMembers == <<"year", "muhurtam_type", "location", "count", "dates">>
JsonDump(obj) == [i \in 1 .. Len(ResultMembers) |-> <<ResultMembers[i], obj[ResultMembers[i]]>>]

\* json.load: the dict of the members of the text
JsonLoad(text) ==
    [name \in {text[i][1] : i \in DOMAIN text} |->
        text[CHOOSE i \in DOMAIN text : text[i][1] = name][2]]

\* a file that is always missing
FileExists_Never(key) == FALSE

\* os.path.exists(cache_file)
FileExists(key) == cache[key] # <<>>

\* what a request or the generator does for one key that has no file: the
\* dates are computed and the file is written
Computed(key) == Entries(scan_results[key])
Written(key) == <<JsonDump(MuhurtamResult(key, Computed(key)))>>
Logged(key) == [computes |-> cache_log[key].computes + 1, writes |-> cache_log[key].writes + 1]

\* the status of the HTTPException of the validation, 0 if none
MuhurtamCheck(y, type, loc_key) ==
    IF loc_key \notin DOMAIN LOCATIONS THEN 400
    ELSE IF y \notin YEARS THEN 400
    ELSE IF ~InList(type, valid_types) THEN 400
    ELSE 0

\* GET /muhurtam: the cached dict if the file exists, else the dates are
\* computed, cached and returned.  The handler has no await: it runs from its
\* first line to its return without another request in between.
GetMuhurtam(y, type, loc_key) ==
    /\ scan_results # <<>>
    /\ request' = [endpoint |-> "/muhurtam", year |-> y, muhurtam_type |-> type,
                   location |-> loc_key,
                   cached |-> IF MuhurtamCheck(y, type, loc_key) = 0
                              THEN {key \in {<<type, y, loc_key>>} : FileExists(key)}
                              ELSE {}]
    /\ IF MuhurtamCheck(y, type, loc_key) # 0
       THEN /\ response' = [status_code |-> MuhurtamCheck(y, type, loc_key)]
            /\ UNCHANGED <<cache, cache_log>>
       ELSE LET key == <<type, y, loc_key>>
            IN  IF FileExists(key)
                THEN /\ response' = JsonLoad(cache[key][1])
                     /\ UNCHANGED <<cache, cache_log>>
                ELSE /\ response' = MuhurtamResult(key, Computed(key))
                     /\ cache' = [cache EXCEPT ![key] = Written(key)]
                     /\ cache_log' = [cache_log EXCEPT ![key] = Logged(key)]
    /\ UNCHANGED <<eph, tz, scanVars, finderVars, snapVars, classVars, rangeVars, scan_results>>

\* GET /muhurtam/all: for each type in turn, the dates of the file if it
\* exists, else the dates are computed and cached
GetAllMuhurtam(y, loc_key) ==
    /\ scan_results # <<>>
    /\ LET valid   == loc_key \in DOMAIN LOCATIONS /\ y \in YEARS
           keys    == IF valid THEN {<<type, y, loc_key>> : type \in MuhurtamTypes} ELSE {}
           missing == {key \in keys : ~FileExists(key)}
       IN  /\ request' = [endpoint |-> "/muhurtam/all", year |-> y, muhurtam_type |-> "all",
                          location |-> loc_key, cached |-> keys \ missing]
           /\ response' =
                  IF ~valid THEN [status_code |-> 400]
                  ELSE [year     |-> y,
                        location |-> [key |-> loc_key, name |-> LOCATIONS[loc_key].name,
                                      country |-> LOCATIONS[loc_key].country],
                        muhurtam_data |->
                            [type \in MuhurtamTypes |->
                                IF FileExists(<<type, y, loc_key>>)
                                THEN JsonLoad(cache[<<type, y, loc_key>>][1]).dates
                                ELSE Computed(<<type, y, loc_key>>)]]
           /\ cache' = [key \in CacheKeys |-> IF key \in missing THEN Written(key) ELSE cache[key]]
           /\ cache_log' = [key \in CacheKeys |->
                               IF key \in missing THEN Logged(key) ELSE cache_log[key]]
    /\ UNCHANGED <<eph, tz, scanVars, finderVars, snapVars, classVars, rangeVars, scan_results>>

\* generate_all_muhurtam_cache, run between two requests: every key without a
\* file gets its file
GenerateAllMuhurtamCache ==
    /\ scan_results # <<>>
    /\ \E key \in CacheKeys : ~FileExists(key)
    /\ cache' = [key \in CacheKeys |-> IF FileExists(key) THEN cache[key] ELSE Written(key)]
    /\ cache_log' = [key \in CacheKeys |->
                        IF FileExists(key) THEN cache_log[key] ELSE Logged(key)]
    /\ UNCHANGED <<eph, tz, scanVars, finderVars, snapVars, classVars, rangeVars, scan_results,
                   request, response>>

\* the requests of the model: two of the types and one that is not served, a
\* year that is not served, a place that is not known
RequestTypes == {"marriage", "naamkaranam", "engagement"}
RequestYears == YEARS \cup {FirstYear - 1}

\* the provider of the cached scans: a sunrise is found on the first
\* LastRiseDay days of the year and on no later day
LastRiseDay == 90
CacheEphemerides ==
    {[e EXCEPT !.fail = [from |-> LastRiseDay, to |-> 2000, every |-> 1]] :
        e \in FairEphemerides}

InitCache ==
    /\ eph \in CacheEphemerides
    /\ muhurtam_type = "none"
    /\ year = 0
    /\ tz = 0
    /\ current_date = NoDate
    /\ auspicious_dates = <<>>
    /\ pc = "idle"
    /\ rise_calls = 0
    /\ FinderIdle
    /\ SnapshotIdle
    /\ RangeIdle
    /\ ClassIdle
    /\ scan_results = [key \in CacheKeys |->
                          ScanResult(key[1], key[2], LOCATIONS[key[3]].timezone)]
    /\ cache = [key \in CacheKeys |-> <<>>]
    /\ cache_log = [key \in CacheKeys |-> [computes |-> 0, writes |-> 0]]
    /\ request = <<>>
    /\ response = <<>>

NextCache ==
    \/ \E y \in RequestYears, type \in RequestTypes, loc_key \in LocationArgs :
           GetMuhurtam(y, type, loc_key)
    \/ \E y \in RequestYears, loc_key \in LocationArgs : GetAllMuhurtam(y, loc_key)
    \/ GenerateAllMuhurtamCache

SpecCache == InitCache /\ [][NextCache]_vars

-----------------------------------------------------------------------------
(* Properties of the Muhurtam scan *)

Scanning == pc \in {"scan", "returned"}

\* the date the last completed pass of the loop was about
PrevDay(date) ==
    IF date[3] > 1 THEN <<date[1], date[2], date[3] - 1>>
    ELSE IF date[2] > 1 THEN <<date[1], date[2] - 1, DaysInMonth(date[1], date[2] - 1)>>
    ELSE <<date[1] - 1, 12, 31>>

HasScanned == Scanning /\ current_date # <<year, 1, 1>>
LastScanned == PrevDay(current_date)

InResult(date) == \E i \in DOMAIN auspicious_dates : auspicious_dates[i].date = date

\* the quantities of the date, read off the ephemeris at the date's sunrise
SunriseOf(date) == RiseTrans(JulianDay(date, tz))
HasSunrise(date) == ~RiseFails(JulianDay(date, tz))
Elongation(t) == (CalcUt(t, MOON) - CalcUt(t, SUN)) % Circle
LunarDayIndex(date) == Elongation(SunriseOf(date)) \div (12 * UnitsPerDegree)
MansionIndex(date) == CalcUt(SunriseOf(date), MOON) \div (Circle \div 27)
SolarMonth(date) == CalcUt(SunriseOf(date), SUN) \div (30 * UnitsPerDegree)
DarkFortnight(date) == LunarDayIndex(date) >= 15

RemovedByWeekday(date) == muhurtam_type = "marriage" /\ Weekday(date) \in {1, 5}
RemovedByMonth(date) ==
    /\ muhurtam_type = "marriage"
    /\ At(MASAS, SolarMonth(date)) \in {"Ashadha", "Bhadrapada"}
    /\ DarkFortnight(date)
Eligible(date) == HasSunrise(date) /\ ~RemovedByWeekday(date) /\ ~RemovedByMonth(date)

AcceptedMansion(date) == InList(MansionIndex(date), auspicious_nakshatras[muhurtam_type])

\* C1 as stated: a date not removed by the weekday or month/fortnight rules is
\* accepted if and only if its 30-sector lunar-day index (0..29) is in the
\* accepted lunar-day list and its mansion index is in the accepted mansion list.
C1_AcceptIffSectorIndexAccepted ==
    (HasScanned /\ Eligible(LastScanned)) =>
        (InResult(LastScanned) <=>
            (/\ InList(LunarDayIndex(LastScanned), auspicious_tithis[muhurtam_type])
             /\ AcceptedMansion(LastScanned)))

\* C1 amended: a date not removed by the weekday or month/fortnight rules is
\* accepted if and only if its lunar-day index within its fortnight (the
\* 30-sector index mod 15, in 0..14) is in the accepted lunar-day list and its
\* mansion index is in the accepted mansion list.
C1_AcceptIffFortnightIndexAccepted ==
    (HasScanned /\ Eligible(LastScanned)) =>
        (InResult(LastScanned) <=>
            (/\ InList(LunarDayIndex(LastScanned) % 15, auspicious_tithis[muhurtam_type])
             /\ AcceptedMansion(LastScanned)))

\* a dark-fortnight date has been accepted
C1_Witness ==
    /\ HasScanned
    /\ Eligible(LastScanned)
    /\ DarkFortnight(LastScanned)
    /\ InResult(LastScanned)

\* C2: no entry of a marriage scan falls on Tuesday (1) or Saturday (5).
C2_NoExcludedWeekday ==
    (Scanning /\ muhurtam_type = "marriage") =>
        \A i \in DOMAIN auspicious_dates :
            /\ Weekday(auspicious_dates[i].date) \notin {1, 5}
            /\ auspicious_dates[i].day \notin {"Tuesday", "Saturday"}

\* a marriage scan has passed over a Tuesday or Saturday whose lunar day and
\* mansion are both accepted, and has emitted other dates
C2_Witness ==
    /\ HasScanned
    /\ muhurtam_type = "marriage"
    /\ Weekday(LastScanned) \in {1, 5}
    /\ HasSunrise(LastScanned)
    /\ InList(LunarDayIndex(LastScanned) % 15, auspicious_tithis[muhurtam_type])
    /\ AcceptedMansion(LastScanned)
    /\ ~InResult(LastScanned)
    /\ auspicious_dates # <<>>

\* C3 as stated: marriage excludes two (solar month, dark fortnight) pairs, so
\* there are two solar months in which no dark-fortnight marriage date is emitted.
C3_TwoMonthsWithoutDarkMarriageDate ==
    (Scanning /\ muhurtam_type = "marriage") =>
        \E m1, m2 \in 0 .. 11 :
            /\ m1 # m2
            /\ \A i \in DOMAIN auspicious_dates :
                   ~(/\ auspicious_dates[i].masa \in {At(MASAS, m1), At(MASAS, m2)}
                     /\ auspicious_dates[i].paksha = "Krishna Paksha")

\* C4: the list is in strictly increasing date order and every date is a date
\* of the requested year.
C4_StrictlyIncreasingWithinYear ==
    Scanning =>
        /\ \A i \in DOMAIN auspicious_dates :
               LET d == auspicious_dates[i].date
               IN  /\ d[1] = year
                   /\ d[2] \in 1 .. 12
                   /\ d[3] \in 1 .. DaysInMonth(year, d[2])
        /\ \A i \in 1 .. (Len(auspicious_dates) - 1) :
               DateLess(auspicious_dates[i].date, auspicious_dates[i + 1].date)

\* a scan has returned a list holding dates of January and of December
C4_Witness ==
    /\ pc = "returned"
    /\ Len(auspicious_dates) >= 2
    /\ auspicious_dates[1].date[2] = 1
    /\ auspicious_dates[Len(auspicious_dates)].date[2] = 12

\* C5: a call with an unknown event type raises at once: no date is evaluated,
\* no ephemeris call is made and no list is built.
C5_UnknownTypeRaisesAtOnce ==
    (pc # "idle" /\ muhurtam_type \notin MuhurtamTypes) =>
        /\ pc = "raised"
        /\ rise_calls = 0
        /\ current_date = NoDate
        /\ auspicious_dates = <<>>

C5_Witness == pc = "raised" /\ muhurtam_type = "engagement"

\* the dates of the year
YearDates(y) == {date \in {y} \X (1 .. 12) \X (1 .. 31) : date[3] <= DaysInMonth(y, date[2])}

\* what evaluating the date alone yields when only the dates that have a
\* sunrise are evaluated: its entry, or <<>>
ExpectedEntry(date) ==
    IF HasSunrise(date) /\ ~WeekdaySkipped(muhurtam_type, date)
    THEN EvaluateDate(muhurtam_type, date, tz, SunriseOf(date))
    ELSE <<>>

-----------------------------------------------------------------------------
(* Properties of the transition finders *)

\* how far the finder's quantity has advanced at instant t since the anchor
\* instant jd (less than a full circle within the one-day search interval)
Advance(t) == (Current(finder, t) - Current(finder, jd)) % Circle

\* how far the target lies ahead of the quantity's value at the anchor instant
Distance == (target - Current(finder, jd)) % Circle

\* the quantity reaches the target within [jd, jd + 1 day]
Reaches == Distance <= Advance(jd + TicksPerDay)

\* the quantity passes 360 degrees within [jd, jd + 1 day]
WrapsInInterval == Current(finder, jd) + Advance(jd + TicksPerDay) >= Circle

\* the first instant in (lo, hi] at which the quantity has reached the target,
\* given that it has not at lo and has at hi
RECURSIVE FirstReached(_, _)
FirstReached(lo, hi) ==
    IF hi - lo <= 1 THEN hi
    ELSE LET mid == (lo + hi) \div 2
         IN  IF Advance(mid) >= Distance THEN FirstReached(lo, mid)
             ELSE FirstReached(mid, hi)

\* the true crossing instant, when the target is reached
Crossing == FirstReached(jd, jd + TicksPerDay)

\* the angular distance between two angles, around the circle
AngularGap(a, b) ==
    LET g == (a - b) % Circle IN IF g <= Circle - g THEN g ELSE Circle - g

\* C7 as stated: when the quantity never reaches the target within the search
\* interval, the finder reports no crossing (None) and the caller reports the
\* end as absent.
C7_NoCrossingReported ==
    (fpc = "returned" /\ ~Reaches) => (found = <<>> /\ end_time = <<>>)

\* C8 as stated: when the next boundary is 0 after mod 360 (last sector) and the
\* wrap happens within the search interval, the finder returns the instant of
\* the wrap: within one minute of it, or where the quantity is within the
\* finder's angular tolerance of the target.
C8_WrapCrossingFound ==
    (fpc = "returned" /\ target = 0 /\ Reaches) =>
        /\ found # <<>>
        /\ \/ Abs(found[1] - Crossing) <= TicksPerMinute
           \/ AngularGap(Current(finder, found[1]), target) < Tolerance(finder)

\* C9 as stated: when the quantity crosses the target once inside the search
\* interval without wrapping, the returned instant is within one minute of the
\* true crossing instant.
C9_WithinOneMinute ==
    (fpc = "returned" /\ Reaches /\ ~WrapsInInterval) =>
        /\ found # <<>>
        /\ Abs(found[1] - Crossing) <= TicksPerMinute

RECURSIVE Pow2(_)
Pow2(n) == IF n = 0 THEN 1 ELSE 2 * Pow2(n - 1)

\* C10: a finder on a one-day window runs at most 20 passes of its loop: every
\* pass returns or halves the interval, the interval stays within the window,
\* and the call's target and anchor and the state outside the finder stay as
\* they were at the call.
C10_TerminatesWithinTwentyPasses ==
    (fpc # "idle") =>
        /\ iterations <= 20
        /\ (jd_end - jd_start) * Pow2(iterations) = TicksPerDay
               \/ (fpc = "returned" /\ (jd_end - jd_start) * Pow2(iterations - 1) = TicksPerDay)
        /\ jd <= jd_start /\ jd_start < jd_end /\ jd_end <= jd + TicksPerDay
        /\ target = NextBoundary(finder, karana_i, jd)
        /\ (fpc = "loop" /\ ~((jd_end - jd_start) > Precision)) => iterations <= 11
        /\ pc = "idle" /\ auspicious_dates = <<>> /\ current_date = NoDate

\* a finder has returned after the most passes a one-day window allows
C10_Witness == fpc = "returned" /\ iterations = 11 /\ found # <<>>

\* the first sunrise after the anchor sunrise
FollowingSunrise == RiseTrans(jd + 1)

\* C11 as stated: each reported end instant (lunar day, lunar mansion, yoga,
\* both karanas) is strictly after the anchor sunrise instant and before the
\* following day's sunrise.
C11_EndBetweenSunrises ==
    (fpc = "returned" /\ found # <<>>) =>
        (jd < found[1] /\ found[1] < FollowingSunrise)

\* the sector widths of the four elements: 12 degrees, 360/27 degrees (mansion
\* and yoga), 6 degrees
ElementWidth ==
    CASE finder = "_find_transition" -> 12 * UnitsPerDegree
      [] finder = "_find_karana_end" -> 6 * UnitsPerDegree
      [] OTHER                       -> Circle \div 27

\* C12: for the angle at the anchor instant and the element's sector width w,
\* the computed index is floor(angle / w), i.e. the one sector k with
\* k*w <= angle < (k+1)*w, and the target passed to the finder is the upper
\* boundary ((index + 1) * w) mod 360 of the element's sector (for the second
\* karana of the day, of the sector after the one at the anchor).
C12_IndexIsFloorAndTargetIsNextBoundary ==
    (fpc # "idle") =>
        LET angle   == Current(finder, jd)
            w       == ElementWidth
            sectors == Circle \div w
            num     == SectorNum(finder, angle)
            index   == (num + karana_i) % sectors
        IN  /\ angle \in 0 .. (Circle - 1)
            /\ num \in 0 .. (sectors - 1)
            /\ num * w <= angle /\ angle < (num + 1) * w
            /\ target = (IF index = sectors - 1 THEN 0 ELSE (index + 1) * w)

\* calls made from the last sector, whose next boundary is 0 after mod 360, and
\* from a sector further down, by every caller
C12_Witness ==
    /\ fpc # "idle"
    /\ finder = "_find_yoga_transition"
    /\ target = 0
    /\ SectorNum(finder, Current(finder, jd)) = 26

-----------------------------------------------------------------------------
(* Properties of the Panchangam snapshot *)

\* the anchor instant of the snapshot: what calculate_panchangam takes as the
\* sunrise of the requested date
SnapshotAnchor == swe_rise_trans(JulianDay(req_date, tz), SUN, CALC_RISE)[2]

\* the lunar-day index (0..29) and the half-lunar-day sector index (0..59) at
\* the anchor instant
AnchorLunarDay == Elongation(SnapshotAnchor) \div (12 * UnitsPerDegree)
AnchorHalfLunarDay == Elongation(SnapshotAnchor) \div (6 * UnitsPerDegree)

\* C13 as stated: for every k in 0..14, lunar-day index k + 15 is reported
\* with the name-table entry of lunar-day index k.
C13_SameEntryInBothFortnights ==
    (ppc = "returned" /\ AnchorLunarDay >= 15) =>
        panchangam.tithi_name = At(TITHIS, AnchorLunarDay - 15)

\* C13, amended: for every k in 0..13, lunar-day index k + 15 is reported with
\* the name-table entry of lunar-day index k; index 14 is reported as Purnima
\* and index 29 as Amavasya.
C13_SameEntryExceptLastOfFortnight ==
    (ppc = "returned") =>
        /\ AnchorLunarDay \in 15 .. 28 =>
               panchangam.tithi_name = At(TITHIS, AnchorLunarDay - 15)
        /\ AnchorLunarDay \in 0 .. 13 =>
               panchangam.tithi_name = At(TITHIS, AnchorLunarDay + 15)
        /\ AnchorLunarDay = 14 => panchangam.tithi_name = "Purnima"
        /\ AnchorLunarDay = 29 => panchangam.tithi_name = "Amavasya"

\* a snapshot of a day of the dark fortnight whose name is the one of the
\* same place in the bright fortnight
C13_Witness ==
    /\ ppc = "returned"
    /\ AnchorLunarDay = 20
    /\ panchangam.tithi_name = "Shashthi"

\* the folding of half-lunar-day sector indices onto name entries
KaranaFold(sector) ==
    IF sector <= 6 THEN sector
    ELSE IF sector >= 57 THEN 7 + (sector - 57)
    ELSE sector % 7

\* C14: the name entry reported for half-lunar-day sector index s is s itself
\* for s in 0..6, 7 + (s - 57) for s >= 57 and s mod 7 for every other s; the
\* snapshot reports the sector at the anchor and the sector after it.
C14_KaranaFolding ==
    (ppc = "returned") =>
        /\ panchangam.karana_json[1].name = At(KARANAS, KaranaFold(AnchorHalfLunarDay))
        /\ panchangam.karana_json[2].name =
               At(KARANAS, KaranaFold((AnchorHalfLunarDay + 1) % 60))
        /\ \A sector \in 0 .. 59 : KaranaEntry(sector) = At(KARANAS, KaranaFold(sector))

\* a snapshot taken in the last slots, and reporting a repeating entry after
\* the wrap to slot 0
C14_Witness ==
    /\ ppc = "returned"
    /\ AnchorHalfLunarDay = 59
    /\ panchangam.karana_json[1].name = "Naga"
    /\ panchangam.karana_json[2].name = "Bava"

\* C15 as stated: each of the 11 named half-lunar-day entries is reported for
\* at least one of the 60 sector indices, by the mapping with which a
\* snapshot's half-lunar-day names are reported.
C15_EveryEntryReported ==
    (ppc = "returned") =>
        \A entry \in 0 .. 10 :
            \E sector \in 0 .. 59 : KaranaEntry(sector) = At(KARANAS, entry)

\* the sunrise and sunset the day windows are laid out from
WindowSunrise == swe_rise_trans(JulianDay(req_date, tz), SUN, CALC_RISE)[2]
WindowSunset == swe_rise_trans(JulianDay(req_date, tz), SUN, CALC_SET)[2]

\* the window of the weekday's segment in a per-weekday table
SegmentWindow(periods, weekday) ==
    LET segment == (WindowSunset - WindowSunrise) \div 8
        from    == WindowSunrise + At(periods, weekday) * segment
    IN  Window(from, from + segment, tz)

\* C16 as stated: the weekday that indexes the per-weekday segment tables is
\* the civil weekday of the requested date (Monday = 0 ... Sunday = 6), for
\* every timezone offset: Rahukalam and Yamagandam are the segments of that
\* weekday.
C16_SegmentsOfCivilWeekday ==
    (ppc = "returned") =>
        /\ panchangam.rahukalam = SegmentWindow(rahu_periods, Weekday(req_date))
        /\ panchangam.yamagandam = SegmentWindow(yama_periods, Weekday(req_date))

\* C17 as stated: the 60-year-cycle name of the snapshot is the entry at index
\* (gregorian_year - 1987) mod 60, where gregorian_year is the year of the
\* requested civil date.
C17_CycleNameOfRequestedYear ==
    (ppc = "returned") =>
        LET index == (req_date[1] - 1987) % 60
        IN  /\ index \in 0 .. 59
            /\ panchangam.samvatsaram = At(samvatsaras, index)

\* the keys of a complete snapshot
SnapshotKeys ==
    {"date", "timezone", "sunrise", "sunset", "moonrise", "moonset", "tithi_name",
     "tithi_end", "paksha", "nakshatra_name", "nakshatra_end", "yoga_name", "yoga_end",
     "karana_json", "masa", "samvatsaram", "ayana", "ruthu", "suryarashi",
     "chandrarashi", "rahukalam", "yamagandam", "varjyam", "durmuhurtham_json",
     "abhijit_muhurtham", "amruthakalam"}

\* the call has been made and no swe.rise_trans call raised
CallWithoutException == ppc # "idle" /\ ~RiseFails(JulianDay(req_date, tz))

\* C18: when the ephemeris reports (status other than 0) that the Moon's rise
\* or set is unavailable, calculate_panchangam still returns a complete
\* snapshot: the affected field, and only it, is absent, and the Sun's times
\* and the elements at the anchor are the ones computed without regard to the
\* Moon's rise and set.
C18_OnlyMoonFieldAbsent ==
    CallWithoutException =>
        /\ ppc = "returned"
        /\ DOMAIN panchangam = SnapshotKeys
        /\ panchangam.moonrise = <<>> <=> eph.moonrise_res # 0
        /\ panchangam.moonset = <<>> <=> eph.moonset_res # 0
        /\ eph.moonrise_res = 0 =>
               panchangam.moonrise = <<TimeStr(MoonTrans(JulianDay(req_date, tz), CALC_RISE), tz)>>
        /\ eph.moonset_res = 0 =>
               panchangam.moonset = <<TimeStr(MoonTrans(JulianDay(req_date, tz), CALC_SET), tz)>>
        /\ \A key \in {"sunrise", "sunset", "tithi_end", "nakshatra_end", "yoga_end"} :
               panchangam[key] # <<>>
        /\ \A i \in 1 .. 2 : panchangam.karana_json[i].end # <<>>
        /\ panchangam.sunrise = TimeStr(WindowSunrise, tz)
        /\ panchangam.sunset = TimeStr(WindowSunset, tz)
        /\ panchangam.tithi_name = At(TITHIS, AnchorLunarDay)
        /\ panchangam.tithi_end = P_calculate_tithi(SnapshotAnchor, tz).tithi_end
        /\ panchangam.nakshatra_end = P_calculate_nakshatra(SnapshotAnchor, tz).nakshatra_end

\* a snapshot of a day on which the Moon does not rise but sets
C18_Witness ==
    /\ ppc = "returned"
    /\ eph.sun_res = 0
    /\ eph.moonrise_res # 0
    /\ eph.moonset_res = 0
    /\ panchangam.moonrise = <<>>
    /\ panchangam.moonset # <<>>
    /\ panchangam.sunrise = TimeStr(RiseTrans(JulianDay(req_date, tz)), tz)

-----------------------------------------------------------------------------
(* Properties of the Muhurtam end times *)

\* the entry appended last
LastEntry == auspicious_dates[Len(auspicious_dates)]

\* the last completed pass of the loop appended an entry
LastScannedEmitted ==
    HasScanned /\ auspicious_dates # <<>> /\ LastEntry.date = LastScanned

\* the lunar-day sector and the mansion sector at an instant
LunarDaySectorAt(t) == Elongation(t) \div (12 * UnitsPerDegree)
MansionSectorAt(t) == CalcUt(t, MOON) \div (Circle \div 27)

\* the 30-minute steps (1..48) after sunrise at which the quantity is no longer
\* in the sector it was in at sunrise
LunarDayStepsOut(at) ==
    {k \in 1 .. 48 : LunarDaySectorAt(at + k * HalfHour) # LunarDaySectorAt(at)}
MansionStepsOut(at) ==
    {k \in 1 .. 48 : MansionSectorAt(at + k * HalfHour) # MansionSectorAt(at)}

\* the local time of the first of the steps, the sentinel "23:59" if there is none
EndOfSteps(steps, at) ==
    IF steps = {} THEN <<23, 59>>
    ELSE TimeStr(at + (CHOOSE k \in steps : \A j \in steps : k <= j) * HalfHour, tz)

\* C20: in the Muhurtam scan the lunar-day and mansion end times are never
\* absent and the scan raises only for an unknown event type: each end is the
\* local time of the first of the 48 successive 30-minute steps after sunrise
\* at which the quantity has left the sector it was in at sunrise (the wrap
\* from 360 to 0 degrees included), and the sentinel "23:59" exactly when no
\* step qualifies.
C20_EndIsFirstStepOutOrSentinel ==
    /\ pc = "raised" => ~KnownType(muhurtam_type)
    /\ LastScannedEmitted =>
           /\ LastEntry.tithi_end = EndOfSteps(LunarDayStepsOut(SunriseOf(LastScanned)),
                                               SunriseOf(LastScanned))
           /\ LastEntry.nakshatra_end = EndOfSteps(MansionStepsOut(SunriseOf(LastScanned)),
                                                   SunriseOf(LastScanned))
           /\ Len(LastEntry.tithi_end) = 2 /\ Len(LastEntry.nakshatra_end) = 2

\* the scan has emitted a date whose mansion does not end within the 48 steps
\* (sentinel) and, last, a date on which the Moon passes from the last mansion
\* through 360 degrees within the 48 steps
C20_Witness ==
    /\ LastScannedEmitted
    /\ \E i \in DOMAIN auspicious_dates : auspicious_dates[i].nakshatra_end = <<23, 59>>
    /\ LastEntry.nakshatra = "Revati"
    /\ LastEntry.nakshatra_end # <<23, 59>>
    /\ MansionSectorAt(SunriseOf(LastScanned)) = 26
    /\ MansionStepsOut(SunriseOf(LastScanned)) # {}

-----------------------------------------------------------------------------
(* Properties of GET /panchangam/range *)

\* C21: whenever /panchangam/range returns data, the number of daily entries
\* returned (count) is at most 366
C21_CountAtMostStatedMaximum ==
    (rpc = "returned") => (range_response.count <= 366)

-----------------------------------------------------------------------------
(* Properties of the table indices *)

InTable(index, table) == index \in 0 .. (Len(table) - 1)

\* C22: for every pair of longitudes in [0, 360) every index computed by
\* PanchangamCalculator lies inside its table (lunar day 0..29, mansion 0..26,
\* composite index 0..26, half-lunar-day name index 0..10, solar month and
\* both zodiac signs 0..11, season 0..5), and the clamp min(k_idx, 10) never
\* changes a value
C22_IndicesInsideTables ==
    (indices # <<>>) =>
        /\ InTable(indices.tithi_num, TITHIS)
        /\ InTable(indices.nakshatra_num, NAKSHATRAS)
        /\ InTable(indices.yoga_num, YOGAS)
        /\ \A i \in 1 .. 2 : InTable(indices.karana_name[i], KARANAS)
        /\ indices.karana_name = indices.k_idx
        /\ InTable(indices.masa, MASAS)
        /\ InTable(indices.sun_rashi_num, RASHIS)
        /\ InTable(indices.moon_rashi_num, RASHIS)
        /\ InTable(indices.ruthu_num, RUTHUS)

-----------------------------------------------------------------------------
(* Properties of the day windows *)

\* the weekday that indexes the per-weekday tables
WindowWeekday == JdWeekday(JulianDay(req_date, tz))

\* the k-th of the 8 equal segments of [sunrise, sunset], k counted from 0
EighthOfDay(k) ==
    LET length == (WindowSunset - WindowSunrise) \div 8
        from   == WindowSunrise + (k * (WindowSunset - WindowSunrise)) \div 8
    IN  [from |-> from, to |-> from + length]

\* a reported window is the k-th segment, which lies in the day
IsEighthOfDay(window, k) ==
    /\ k \in 0 .. 7
    /\ window = Window(EighthOfDay(k).from, EighthOfDay(k).to, tz)
    /\ WindowSunrise <= EighthOfDay(k).from
    /\ EighthOfDay(k).to <= WindowSunset

\* C23: for every weekday 0..6 and every sunrise < sunset, rahukalam and
\* yamagandam are each exactly one of the 8 equal segments of [sunrise, sunset]:
\* the window starts at sunrise + k * (sunset - sunrise) / 8 with k the
\* weekday's table entry, 0 <= k <= 7, lasts (sunset - sunrise) / 8 and ends
\* no later than sunset
C23_OneOfEightSegments ==
    (ppc = "returned" /\ WindowSunrise < WindowSunset) =>
        /\ WindowWeekday \in 0 .. 6
        /\ IsEighthOfDay(panchangam.rahukalam, At(rahu_periods, WindowWeekday))
        /\ IsEighthOfDay(panchangam.yamagandam, At(yama_periods, WindowWeekday))

\* a snapshot whose rahukalam is the last segment of the day and ends at sunset
C23_Witness ==
    /\ ppc = "returned"
    /\ WindowSunrise < WindowSunset
    /\ At(rahu_periods, WindowWeekday) = 7
    /\ panchangam.rahukalam.end = panchangam.sunset

-----------------------------------------------------------------------------
(* Properties of the lunar-day test of the scan *)

\* the lunar days that the comment of the marriage criteria names
DocumentedMarriageLunarDays ==
    {"Dwitiya", "Tritiya", "Panchami", "Saptami", "Dashami", "Ekadashi", "Dwadashi",
     "Trayodashi"}

\* what _calculate_tithi returned for the date of the last pass
LastLunarDay == M_calculate_tithi(SunriseOf(LastScanned), tz)

\* C24: the lunar days accepted for marriage are exactly Dwitiya, Tritiya,
\* Panchami, Saptami, Dashami, Ekadashi, Dwadashi and Trayodashi: a date passes
\* the lunar-day test of a marriage scan if and only if the lunar-day name
\* emitted for it is one of these eight names
C24_DocumentedLunarDaysAccepted ==
    (HasScanned /\ muhurtam_type = "marriage" /\ HasSunrise(LastScanned)) =>
        (InList(LastLunarDay.tithi_number - 1, auspicious_tithis["marriage"])
            <=> LastLunarDay.tithi_name \in DocumentedMarriageLunarDays)

-----------------------------------------------------------------------------
(* Properties of a finder run on its own result *)

\* C25: each transition finder is a fixed point on its own result: for every
\* instant it returns, running the same finder again with the same target on an
\* interval whose midpoint is that instant returns the instant again without
\* moving either interval bound
C25_FixedPointOnOwnResult ==
    (fpc = "returned" /\ rerun # <<>>) =>
        /\ found = <<rerun.result>>
        /\ jd_start = rerun.jd_start
        /\ jd_end = rerun.jd_end

-----------------------------------------------------------------------------
(* Properties of the two calculators on the same instant *)

\* C26: for the same Sun and Moon longitudes at the same instant,
\* MuhurtamCalculator._calculate_tithi and PanchangamCalculator._calculate_tithi
\* report the same lunar-day name and the same fortnight
C26_SameLunarDayInBothCalculators ==
    (HasScanned /\ HasSunrise(LastScanned)) =>
        /\ LastLunarDay.tithi_name = P_calculate_tithi(SunriseOf(LastScanned), tz).tithi_name
        /\ LastLunarDay.paksha = P_calculate_tithi(SunriseOf(LastScanned), tz).paksha

-----------------------------------------------------------------------------
(* Properties of the two karana entries of a snapshot *)

\* the sector of the half lunar day at the snapshot's anchor
AnchorKaranaSector ==
    SectorNum("_find_karana_end", Current("_find_karana_end", SnapshotAnchor))

\* the end instant that _find_karana_end returned for entry i (0 or 1)
KaranaEndInstant(i) ==
    FindTransition("_find_karana_end", SnapshotAnchor, SnapshotAnchor + TicksPerDay,
                   NextBoundary("_find_karana_end", i, SnapshotAnchor))

\* C27: in every snapshot the end instant of the second karana entry is never
\* earlier than the end instant of the first, for every sector index at
\* sunrise, 58 and 59 included
C27_SecondEndNotBeforeFirst ==
    (ppc = "returned") =>
        /\ panchangam.karana_json[1].end = EndField(<<KaranaEndInstant(0)>>, tz)
        /\ panchangam.karana_json[2].end = EndField(<<KaranaEndInstant(1)>>, tz)
        /\ KaranaEndInstant(0) <= KaranaEndInstant(1)

-----------------------------------------------------------------------------
(* Properties of the 48-minute windows *)

\* a reported local time as minutes of the day, and the minutes from one
\* reported time to a later one
MinuteOfDay(time) == time[1] * 60 + time[2]
MinutesFrom(from, to) == (MinuteOfDay(to) - MinuteOfDay(from)) % MinutesPerDay

\* the reported daylight
DaylightMinutes == MinutesFrom(panchangam.sunrise, panchangam.sunset)

\* a reported window lasts 48 minutes and lies within [sunrise, sunset]
FortyEightWithinDay(window) ==
    /\ MinutesFrom(window.start, window.end) = 48
    /\ MinutesFrom(panchangam.sunrise, window.start) + 48 <= DaylightMinutes

\* C28: for every day with at least 4 hours of daylight, morning Durmuhurtham,
\* evening Durmuhurtham and Varjyam are each exactly 48 minutes long and lie
\* entirely within [sunrise, sunset]
C28_FixedWindowsWithinDaylight ==
    (ppc = "returned" /\ WindowSunrise < WindowSunset /\ DaylightMinutes >= 4 * 60) =>
        /\ FortyEightWithinDay(panchangam.durmuhurtham_json[1])
        /\ FortyEightWithinDay(panchangam.durmuhurtham_json[2])
        /\ FortyEightWithinDay(panchangam.varjyam)

-----------------------------------------------------------------------------
(* Properties of the scan as a whole *)

\* a pass of the loop: the scan is in the loop before and after the step
ScanPass == pc = "scan" /\ pc' = "scan"

\* C29: the year scan terminates and evaluates each civil date from Jan 1 to
\* Dec 31 exactly once: the first pass is about Jan 1, on every path through
\* the loop body the current date advances by exactly one day and at most the
\* entry of the pass's date is appended, the scan returns only after the pass
\* about Dec 31, and a scan in the loop does return
C29_EveryDateOnceAndTerminates ==
    /\ [][(pc = "idle" /\ pc' = "scan") => current_date' = <<year', 1, 1>>]_vars
    /\ [][ScanPass =>
            /\ current_date' = NextDay(current_date)
            /\ DayNumber(current_date') = DayNumber(current_date) + 1
            /\ current_date[1] = year
            /\ \/ auspicious_dates' = auspicious_dates
               \/ /\ Len(auspicious_dates') = Len(auspicious_dates) + 1
                  /\ auspicious_dates'[Len(auspicious_dates')].date = current_date]_vars
    /\ [][(pc = "scan" /\ pc' = "returned") => current_date = <<year + 1, 1, 1>>]_vars
    /\ (pc = "scan") ~> (pc = "returned")

\* a scan has gone through the loop's three ways past a date (the weekday rule,
\* the failed sunrise, the evaluation) and has returned after Dec 31
C29_Witness ==
    /\ pc = "returned"
    /\ muhurtam_type = "marriage"
    /\ current_date = <<year + 1, 1, 1>>
    /\ eph.fail.from <= eph.fail.to
    /\ auspicious_dates # <<>>

-----------------------------------------------------------------------------
(* Properties of the Muhurtam cache *)

\* the dates stored in the file of a key
StoredDates(key) == JsonLoad(cache[key][1]).dates

\* the last request was answered with data
Answered == request # <<>> /\ "status_code" \notin DOMAIN response

\* the dates the last response gives for a key
ResponseDates(key) ==
    IF request.endpoint = "/muhurtam" THEN response.dates
    ELSE response.muhurtam_data[key[1]]

\* the keys the last request was about
RequestKeys ==
    {key \in CacheKeys : /\ key[2] = request.year
                         /\ key[3] = request.location
                         /\ request.endpoint = "/muhurtam" => key[1] = request.muhurtam_type}

\* C30: after any sequence of /muhurtam and /muhurtam/all requests, once a
\* cache file exists for a (type, year, location) key it is never rewritten, no
\* request for that key recomputes the dates, and every later response for that
\* key from either endpoint returns exactly the dates stored in the file
C30_CacheFileWrittenOnce ==
    /\ [][\A key \in CacheKeys :
            cache[key] # <<>> => /\ cache'[key] = cache[key]
                                 /\ cache_log'[key] = cache_log[key]]_vars
    /\ [](scan_results # <<>> =>
            \A key \in CacheKeys : /\ cache_log[key].writes <= 1
                                   /\ cache_log[key].computes <= 1
                                   /\ cache[key] # <<>> <=> cache_log[key].writes = 1)
    /\ [](Answered =>
            \A key \in RequestKeys : /\ cache[key] # <<>>
                                     /\ ResponseDates(key) = StoredDates(key))

\* a /muhurtam/all request answered partly from files that earlier requests
\* wrote, with dates in them, and partly by computing
C30_Witness ==
    /\ Answered
    /\ request.endpoint = "/muhurtam/all"
    /\ request.cached # {}
    /\ request.cached # RequestKeys
    /\ \E key \in request.cached : Len(ResponseDates(key)) > 0

====
